---- MODULE Spec2Model ----
(***************************************************************************)
(* A model of the grid-trader control loop (GridTrader.main_loop), its     *)
(* risk gate (RiskManager), the S1 position overlay (PositionController),  *)
(* the order throttle (OrderThrottler) and the dashboard handlers          *)
(* (WebServer) that run as a second asyncio task.                          *)
(*                                                                         *)
(* asyncio is cooperative: a task runs until it awaits something that      *)
(* really suspends (a network call, a sleep).  Each value of pc below is   *)
(* such a suspension point of main_loop, and each action is the code that  *)
(* runs between two suspension points.  Time is counted in units of 60 s;  *)
(* it advances in sleeps only (a network call takes less than one unit).   *)
(* Prices are integers, grid sizes are tenths of a percent (2% = 20).       *)
(*                                                                         *)
(* Spec is the loop with the dashboard.  The components whose state the    *)
(* loop does not read are explored by specifications of their own over the *)
(* same variables: SpecThrottle (OrderThrottler), SpecSignals (direct      *)
(* calls of _check_trading_signals), SpecLedger (OrderTracker), SpecRisk   *)
(* (the asset bookkeeping of RiskManager), SpecBands (the bands and the    *)
(* signals for any base price and grid), SpecSizing (the order amount),    *)
(* SpecGrid (the grid resize under either volatility table), SpecS1 (the   *)
(* S1 decision), SpecOverlay (the S1 overlay over a longer time),          *)
(* SpecInterval (the sleep at the end of a tick), SpecBot (main_loop and   *)
(* the web server task under GridTradingBot, with stop), SpecAlerts        *)
(* (send_risk_alert), SpecConfig (handle_update_config), SpecStats         *)
(* (get_statistics), SpecArchive (the archive of OrderTracker), SpecLevels *)
(* (the refresh of the S1 levels over days), SpecAdjust (the amount of an  *)
(* S1 adjustment) and SpecSwitch (the loop with the symbol switch, the     *)
(* symbol of each signal kept).                                            *)
(***************************************************************************)
EXTENDS Integers, Sequences, FiniteSets, TLC

VARIABLES
    pc,                        \* main_loop: the suspension point it waits at
    initialized,               \* GridTrader.initialized
    symbol,                    \* GridTrader.symbol
    base_price,                \* GridTrader.base_price
    grid_size,                 \* GridTrader.grid_size (tenths of a percent)
    current_price,             \* GridTrader.current_price (None before the first poll)
    buying_or_selling,         \* GridTrader.buying_or_selling, the busy flag
    INITIAL_GRID,              \* TradingConfig.INITIAL_GRID (tenths of a percent)
    emergency_stop_triggered,  \* RiskManager.emergency_stop_triggered
    open_orders,               \* orders resting on the exchange for the symbol
    order_timestamps,          \* OrderThrottler.order_timestamps
    limit,                     \* OrderThrottler.limit
    interval,                  \* OrderThrottler.interval
    now,                       \* time.time()
    s1_levels,                 \* PositionController.s1_daily_low / s1_daily_high
    s1_last_data_update_ts,    \* PositionController.s1_last_data_update_ts
    last_position_check,       \* PositionController.last_position_check
    last_adjustment_time,      \* PositionController.last_adjustment_time
    side,                      \* the side of the decision being executed
    sleep_for,                 \* the argument of the asyncio.sleep main_loop is in
    dpc,                       \* the dashboard task: the handler step it waits at
    sig,                       \* direct callers of _check_trading_signals
    \* history variables (they record what happened; no action reads them)
    ordersThisTick,            \* orders submitted in the current loop iteration, per path
    tickLatched,               \* the emergency stop was latched when the iteration began
    lastSignal,                \* the last direct call of _check_trading_signals
    riskThisTick,              \* what check_all_risks did in the current iteration
    inflight,                  \* create_market_order calls not yet returned
    rateAllowed,               \* check_rate returned True in the current decision
    allowedAt,                 \* per time, how many check_rate calls were allowed
    lastCall,                  \* the last check_rate call
    \* OrderTracker
    trade_history,             \* OrderTracker.trade_history (the order ids, in order)
    history_file,              \* data/<symbol>/trade_history.json
    backup_file,               \* data/<symbol>/trade_history.backup.json
    archives,                  \* data/<symbol>/archives: the ids of each archive file
    \* RiskManager's bookkeeping of the assets
    max_asset_value,           \* RiskManager.max_asset_value
    daily_start_assets,        \* RiskManager.daily_start_assets
    daily_pnl_history,         \* RiskManager.daily_pnl_history (the dates)
    \* the grid engine's order
    order,                     \* the price of the order create_market_order returned
    \* history variables
    accepted,                  \* the order ids add_trade accepted, in order
    lastAdd,                   \* the last add_trade call
    writeFailures,             \* writes of the history file that failed
    lastDrawdown,              \* the last check_max_drawdown call
    lastDaily,                 \* the last check_daily_loss_limit call
    sizing,                    \* the last calculate_trade_amount call
    evaluated,                 \* the last evaluation of the bands and signals
    adjusted,                  \* the last _check_grid_adjustment call
    s1Checked,                 \* the last _check_s1_strategy call
    intervalFor,               \* the last _calculate_dynamic_interval call
    s1OrderedAt,               \* when the overlay last placed an order (0: never)
    failedStep,                \* the last step of a tick that caught an exception
    \* GridTradingBot
    running,                   \* GridTradingBot.running
    web_task,                  \* the task of _start_web_server
    \* RiskManager.send_risk_alert
    risk_alerts,               \* RiskManager.risk_alerts: per kind, the last alert's time
    alerted,                   \* the last call of send_risk_alert and what it did
    \* TradingConfig, as handle_update_config sets it
    config,                    \* MIN_POSITION_RATIO and MAX_POSITION_RATIO (%)
    updated,                   \* the last request of handle_update_config and its response
    \* OrderTracker.get_statistics
    profits,                   \* the profit of each trade of trade_history, oldest first
    statistics,                \* what get_statistics returned last
    refreshes,                 \* the times the S1 levels were refreshed at
    adjustment,                \* the last S1 adjustment: its inputs, amount and outcome
    signalled,                 \* the symbol, price and base price of the loop's last signal
    \* the configuration's tables
    GRID_PARAMS                \* GRID_PARAMS["volatility_threshold"]["ranges"]

vars == <<pc, initialized, symbol, base_price, grid_size, current_price,
          buying_or_selling, INITIAL_GRID, emergency_stop_triggered, open_orders,
          order_timestamps, limit, interval, now, s1_levels,
          s1_last_data_update_ts, last_position_check, last_adjustment_time,
          side, sleep_for, dpc, sig, ordersThisTick, tickLatched, lastSignal,
          riskThisTick, inflight, rateAllowed, allowedAt, lastCall,
          trade_history, history_file, backup_file, archives, max_asset_value,
          daily_start_assets, daily_pnl_history, order, accepted, lastAdd,
          writeFailures, lastDrawdown, lastDaily, sizing, evaluated, adjusted,
          s1Checked, intervalFor, s1OrderedAt, failedStep, running, web_task,
          risk_alerts, alerted, config, updated,
          profits, statistics, refreshes, adjustment, signalled,
          GRID_PARAMS>>

\* The variables of the trader, its configuration and its collaborators.
traderVars == <<initialized, symbol, base_price, grid_size, current_price,
                buying_or_selling, INITIAL_GRID, emergency_stop_triggered,
                open_orders, order_timestamps, s1_levels,
                s1_last_data_update_ts, last_position_check,
                last_adjustment_time>>

throttleVars == <<order_timestamps, limit, interval>>
throttleHist == <<allowedAt, lastCall>>
s1Vars == <<s1_levels, s1_last_data_update_ts, last_position_check,
            last_adjustment_time>>
dashVars == <<dpc>>
tickHist == <<ordersThisTick, tickLatched, riskThisTick, inflight, rateAllowed>>
ledgerVars == <<trade_history, history_file, backup_file, archives, accepted,
                lastAdd, writeFailures>>
gridVars == <<adjusted, GRID_PARAMS>>
probes == <<s1Checked, intervalFor, s1OrderedAt>>
botVars == <<running, web_task, failedStep>>
alertVars == <<risk_alerts, alerted>>
configVars == <<config, updated>>
statsVars == <<profits, statistics>>
moreVars == <<refreshes, adjustment, signalled>>
auxVars == <<alertVars, configVars, statsVars, moreVars>>
riskBook == <<max_asset_value, daily_start_assets, daily_pnl_history,
              lastDrawdown, lastDaily>>

\* The orders submitted in the current loop iteration.
OrdersSubmitted == ordersThisTick.grid + ordersThisTick.S1

-----------------------------------------------------------------------------
(* Bounds of the model *)

StartTime == 2000       \* time.time() at start-up (units of 60 s since the epoch)
MaxTime == 1            \* the model follows the clock this far past StartTime
MaxCalls == 4           \* direct calls of _check_trading_signals
MaxLimit == 2           \* OrderThrottler(limit), when the throttle is checked alone
MaxInterval == 2        \* OrderThrottler(interval), when checked alone
MaxThrottleTime == 4    \* the clock's reach when the throttle is checked alone
MaxTrades == 102        \* trades add_trade accepts, when the ledger is checked alone
MaxWriteFailures == 1   \* failed writes of the history file
MaxHalfDays == 4        \* the clock's reach, in half days, when the risk
                        \* manager's bookkeeping is checked alone

Nil == "None"           \* None, for a name
None == 0               \* None, for a price (0 and None are both falsy)
NoVolatility == -1      \* None, for a volatility
NoAssets == -1         \* None, for daily_start_assets
NoLevels == [low |-> 0, high |-> 0]    \* s1_daily_low and s1_daily_high of None
Prices == {92, 108}
Symbols == {"BNB/USDT", "ETH/USDT"}
GridSettings == {20, 25}       \* values the dashboard sets INITIAL_GRID to
Callers == {"task1", "task2"}              \* direct callers of _check_trading_signals

Abs(x) == IF x < 0 THEN -x ELSE x

-----------------------------------------------------------------------------
(* Program constants, times in units of 60 s *)

DEFAULT_INITIAL_GRID == 20        \* INITIAL_GRID = 2.0 (%)
DEFAULT_LIMIT == 10                \* OrderThrottler(limit=10)
DEFAULT_INTERVAL == 1              \* OrderThrottler(interval=60)
RISK_PAUSE == 1                    \* asyncio.sleep(60) in handle_risk_event
DEFAULT_SLEEP == 1                 \* _calculate_dynamic_interval: return 60
position_check_interval == 5       \* 300 s
adjustment_cooldown == 30          \* 1800 s
daily_update_interval == 1434      \* 23.9 * 60 * 60 s
HYSTERESIS == 5                   \* abs(suggested_grid - grid_size) > 0.5

-----------------------------------------------------------------------------
(* TradingConfig *)

\* A variant of the next definition without the division by 5.
get_flip_threshold_undivided == INITIAL_GRID * 5

\* get_flip_threshold: (INITIAL_GRID / 5) / 100, here as parts of 5000.
get_flip_threshold == INITIAL_GRID

\* _get_default_volatility_thresholds and get_grid_size_by_volatility: the first
\* range [min, max) holding the volatility (in %), the last grid as fallback.
VolatilityRanges == <<
    [min |-> 0,   max |-> 20,    grid |-> 10],
    [min |-> 20,  max |-> 40,    grid |-> 15],
    [min |-> 40,  max |-> 60,    grid |-> 20],
    [min |-> 60,  max |-> 80,    grid |-> 25],
    [min |-> 80,  max |-> 100,   grid |-> 30],
    [min |-> 100, max |-> 120,   grid |-> 35],
    [min |-> 120, max |-> 99900, grid |-> 40] >>

\* SYMBOL_CONFIG["grid_params"]["volatility_threshold"] of eth_usdt.py.
EthVolatilityRanges == <<
    [min |-> 0,   max |-> 15,    grid |-> 15],
    [min |-> 15,  max |-> 30,    grid |-> 20],
    [min |-> 30,  max |-> 50,    grid |-> 25],
    [min |-> 50,  max |-> 70,    grid |-> 30],
    [min |-> 70,  max |-> 90,    grid |-> 35],
    [min |-> 90,  max |-> 120,   grid |-> 40],
    [min |-> 120, max |-> 99900, grid |-> 50] >>

\* MIN_GRID_SIZE and MAX_GRID_SIZE of the configuration: _apply_symbol_config
\* updates the GRID_PARAMS dictionary and leaves these two attributes alone.
MIN_GRID_SIZE == 10
MAX_GRID_SIZE == 40

\* _load_symbol_specific_config and _apply_symbol_config: the symbol's module,
\* if there is one (eth_usdt.py is the only one), replaces the table; without
\* a module the table stays the one it was.
_load_symbol_specific_config(new_symbol) ==
    GRID_PARAMS' = IF new_symbol = "ETH/USDT" THEN EthVolatilityRanges
                   ELSE GRID_PARAMS

get_grid_size_by_volatility(volatility) ==
    LET hits == {i \in DOMAIN GRID_PARAMS :
                    /\ GRID_PARAMS[i].min <= volatility
                    /\ volatility < GRID_PARAMS[i].max}
    IN  IF hits = {} THEN GRID_PARAMS[Len(GRID_PARAMS)].grid
        ELSE GRID_PARAMS[CHOOSE i \in hits : \A j \in hits : i <= j].grid

\* A variant of the next definition that applies a delta of 0.5 too.
_check_grid_adjustment_inclusive(volatility) ==
    grid_size' =
       IF volatility = NoVolatility THEN grid_size
       ELSE IF Abs(get_grid_size_by_volatility(volatility) - grid_size)
                  >= HYSTERESIS
            THEN get_grid_size_by_volatility(volatility)
            ELSE grid_size

\* _check_grid_adjustment once _calculate_volatility has returned.
_check_grid_adjustment(volatility) ==
    grid_size' =
       IF volatility = NoVolatility THEN grid_size
       ELSE IF Abs(get_grid_size_by_volatility(volatility) - grid_size)
                  > HYSTERESIS
            THEN get_grid_size_by_volatility(volatility)
            ELSE grid_size

\* DYNAMIC_INTERVAL_PARAMS and get_interval_by_volatility, in units of 60 s
\* (0.125 h = 7.5 units is rounded up to 8).
IntervalRanges == <<
    [min |-> 0,  max |-> 20,    units |-> 60],
    [min |-> 20, max |-> 40,    units |-> 30],
    [min |-> 40, max |-> 80,    units |-> 15],
    [min |-> 80, max |-> 99900, units |-> 8] >>

get_interval_by_volatility(volatility) ==
    LET hits == {i \in DOMAIN IntervalRanges :
                    /\ IntervalRanges[i].min <= volatility
                    /\ volatility < IntervalRanges[i].max}
    IN  IF hits = {} THEN 60
        ELSE IntervalRanges[CHOOSE i \in hits : \A j \in hits : i <= j].units

\* What _calculate_volatility returns: None (too few candles, or the fetch
\* failed) or the volatility in %.
Volatilities == {NoVolatility, 10, 25}

-----------------------------------------------------------------------------
(* GridTrader: bands and signals *)

\* _get_upper_band and _get_lower_band, times 1000.
_get_upper_band == base_price * (1000 + grid_size)

\* A variant of the next definition that adds the grid.
_get_lower_band_added == base_price * (1000 + grid_size)

_get_lower_band == base_price * (1000 - grid_size)

\* _check_buy_signal: price <= lower_band * (1 - threshold).
_check_buy_signal(price) ==
    /\ price # None
    /\ price * 1000 * 5000 <= _get_lower_band * (5000 - get_flip_threshold)

\* _check_sell_signal: price >= upper_band * (1 + threshold).
_check_sell_signal(price) ==
    /\ price # None
    /\ price * 1000 * 5000 >= _get_upper_band * (5000 + get_flip_threshold)

\* A variant of the next definition that does not look at the busy flag.
SignalOutcomeUnguarded(price) ==
    IF _check_buy_signal(price) THEN "buy"
    ELSE IF _check_sell_signal(price) THEN "sell"
    ELSE "none"

\* _check_trading_signals up to its first suspension: dropped when the busy flag
\* is set, else the buy signal is looked at before the sell signal.
SignalOutcome(price) ==
    IF buying_or_selling THEN "dropped"
    ELSE IF _check_buy_signal(price) THEN "buy"
    ELSE IF _check_sell_signal(price) THEN "sell"
    ELSE "none"

-----------------------------------------------------------------------------
(* OrderThrottler *)

\* check_rate keeps the timestamps t with current_time - t < interval.
InWindow(t, current_time) == current_time - t < interval

Pruned(current_time) ==
    SelectSeq(order_timestamps, LAMBDA t : InWindow(t, current_time))

\* A variant of the next definition that denies one timestamp too late.
RateAllowsOneMore(current_time) == Len(Pruned(current_time)) <= limit

\* check_rate's answer: False with limit timestamps left after pruning.
RateAllows(current_time) == Len(Pruned(current_time)) < limit

\* The allowed calls of the whole run that lie in the window ending at time t.
AllowedInWindow(log, t) ==
    Cardinality({i \in DOMAIN log : log[i] <= t /\ t - log[i] < interval})

\* OrderThrottler.check_rate, called at the current time.
check_rate ==
    /\ order_timestamps' = IF RateAllows(now) THEN Append(Pruned(now), now)
                           ELSE Pruned(now)
    /\ allowedAt' = IF RateAllows(now) THEN Append(allowedAt, now) ELSE allowedAt
    /\ lastCall' = [made |-> TRUE, time |-> now, allowed |-> RateAllows(now),
                    inWindow |-> AllowedInWindow(allowedAt, now),
                    recorded |-> Len(order_timestamps') - Len(Pruned(now))]
    /\ UNCHANGED <<limit, interval>>

-----------------------------------------------------------------------------
(* OrderTracker: the trade ledger.  A trade is followed by its order_id, by   *)
(* the field it lacks (if any) and by the field that holds a value float()   *)
(* does not convert (if any); order_id 0 stands for None.                     *)

HISTORY_LIMIT == 100
ARCHIVE_THRESHOLD == 1000
ARCHIVE_BATCH == 500

\* The fields add_trade asks for, the fields it converts with float(), and the
\* fields of the records _execute_buy_order, _execute_sell_order and
\* _execute_s1_adjustment build.
RequiredFields == {"timestamp", "side", "price", "amount", "order_id"}
ConvertedFields == {"timestamp", "price", "amount"}
TradeRecordFields == RequiredFields \cup {"symbol", "cost", "strategy"}
NumericFields == ConvertedFields \cup {"cost"}

Ids(trades) == {trades[i] : i \in DOMAIN trades}

\* A variant of the next definition that finds no duplicate.
IsDuplicateNever(trade) == FALSE

\* add_trade's duplicate check: any(t["order_id"] == trade.get("order_id")).
IsDuplicate(trade) == trade.order_id \in Ids(trade_history)

\* A variant of the next definition without the float() conversions.
IsMalformedFieldsOnly(trade) == trade.missing \in RequiredFields

\* add_trade's validation: a required field is not there, or float() raises.
IsMalformed(trade) ==
    \/ trade.missing \in RequiredFields
    \/ trade.bad \in ConvertedFields

\* A variant of the next definition that keeps the first entries.
KeepOldest(history) ==
    IF Len(history) > HISTORY_LIMIT THEN SubSeq(history, 1, HISTORY_LIMIT)
    ELSE history

\* trade_history[-100:] when the history has more than 100 entries.
KeepRecent(history) ==
    IF Len(history) > HISTORY_LIMIT
    THEN SubSeq(history, Len(history) - HISTORY_LIMIT + 1, Len(history))
    ELSE history

\* save_trade_history: backup_history copies the history file when there is
\* one, then the history is written; a write that fails is logged and the
\* file stays as it was.
save_trade_history(history) ==
    \E written \in BOOLEAN :
       /\ written \/ writeFailures < MaxWriteFailures
       /\ backup_file' = IF history_file.exists THEN history_file ELSE backup_file
       /\ history_file' = IF written THEN [exists |-> TRUE, trades |-> history]
                          ELSE history_file
       /\ writeFailures' = IF written THEN writeFailures ELSE writeFailures + 1

\* OrderTracker.add_trade.
add_trade(trade) ==
    LET outcome == IF IsDuplicate(trade) THEN "duplicate"
                   ELSE IF IsMalformed(trade) THEN "malformed"
                   ELSE "accepted"
    IN  /\ lastAdd' = [n |-> 1 - lastAdd.n, trade |-> trade, outcome |-> outcome]
        /\ IF outcome = "accepted"
           THEN /\ trade_history' = KeepRecent(Append(trade_history, trade.order_id))
                /\ accepted' = Append(accepted, trade.order_id)
                /\ save_trade_history(trade_history')
           ELSE UNCHANGED <<trade_history, accepted, history_file, backup_file,
                            writeFailures>>
        /\ UNCHANGED archives

\* OrderTracker.archive_old_trades: with more than 1000 entries the first 500
\* go to a new archive file and the rest is saved.
archive_old_trades ==
    /\ IF Len(trade_history) > ARCHIVE_THRESHOLD
       THEN /\ archives' = Append(archives, SubSeq(trade_history, 1, ARCHIVE_BATCH))
            /\ trade_history' = SubSeq(trade_history, ARCHIVE_BATCH + 1,
                                       Len(trade_history))
            /\ save_trade_history(trade_history')
       ELSE UNCHANGED <<archives, trade_history, history_file, backup_file,
                        writeFailures>>
    /\ UNCHANGED <<accepted, lastAdd>>

-----------------------------------------------------------------------------
(* GridTrader: the grid engine.  who is "loop" for main_loop, or a direct    *)
(* caller of _check_trading_signals.                                         *)

At(who, label) == IF who = "loop" THEN pc = label ELSE sig[who] = label

\* Go on at label; "return" leaves _check_trading_signals: main_loop goes on to
\* _check_grid_adjustment (it waits for fetch_ohlcv), a direct caller is done.
Goto(who, label) ==
    IF who = "loop"
    THEN /\ pc' = IF label = "return" THEN "ohlcv" ELSE label
         /\ UNCHANGED sig
    ELSE /\ sig' = [sig EXCEPT ![who] = IF label = "return" THEN "idle" ELSE label]
         /\ UNCHANGED pc

\* _check_trading_signals, entered with the price in current_price': dropped
\* with the busy flag set; else a signal sets the flag (_execute_buy_order,
\* _execute_sell_order) and waits for fetch_balance in calculate_trade_amount.
_check_trading_signals(who, price) ==
    LET outcome == SignalOutcome(price) IN
    IF outcome \in {"buy", "sell"}
    THEN /\ buying_or_selling' = TRUE
         /\ side' = outcome
         /\ Goto(who, "g_balance")
    ELSE /\ UNCHANGED <<buying_or_selling, side>>
         /\ Goto(who, "return")

\* A variant of the next definition that does not wait for create_market_order:
\* the order is sent off and _check_trading_signals returns.
_execute_order_amount_nowait(who) ==
    /\ At(who, "g_balance")
    /\ ordersThisTick' = [ordersThisTick EXCEPT !.grid = @ + 1]
    /\ inflight' = inflight + 1
    /\ buying_or_selling' = FALSE
    /\ Goto(who, "return")
    /\ UNCHANGED <<initialized, symbol, base_price, grid_size, current_price,
                   INITIAL_GRID, emergency_stop_triggered, open_orders, now,
                   side, sleep_for, riskThisTick, rateAllowed, tickLatched,
                   lastSignal>>
    /\ UNCHANGED <<throttleVars, throttleHist, s1Vars, dashVars>>
    /\ UNCHANGED <<ledgerVars, riskBook, sizing, evaluated, gridVars, probes, botVars, auxVars,
                   order>>

\* A variant of the next definition without the finally clause: an order given
\* up for its amount leaves the busy flag set.
_execute_order_amount_no_finally(who) ==
    /\ At(who, "g_balance")
    /\ \E amount \in {0, 1} :
          IF amount <= 0
          THEN /\ UNCHANGED buying_or_selling
               /\ Goto(who, "return")
               /\ UNCHANGED <<ordersThisTick, inflight>>
          ELSE /\ ordersThisTick' = [ordersThisTick EXCEPT !.grid = @ + 1]
               /\ inflight' = inflight + 1
               /\ Goto(who, "g_order")
               /\ UNCHANGED buying_or_selling
    /\ UNCHANGED <<initialized, symbol, base_price, grid_size, current_price,
                   INITIAL_GRID, emergency_stop_triggered, open_orders, now,
                   side, sleep_for, riskThisTick, rateAllowed, tickLatched,
                   lastSignal>>
    /\ UNCHANGED <<throttleVars, throttleHist, s1Vars, dashVars>>
    /\ UNCHANGED <<ledgerVars, riskBook, sizing, evaluated, gridVars, probes, botVars, auxVars,
                   order>>

\* calculate_trade_amount returned: with no amount (or an error) the order is
\* given up and the finally clause clears the flag; else create_market_order
\* is called for the symbol the trader has now.
_execute_order_amount(who) ==
    /\ At(who, "g_balance")
    /\ \E amount \in {0, 1} :
          IF amount <= 0
          THEN /\ buying_or_selling' = FALSE
               /\ Goto(who, "return")
               /\ UNCHANGED <<ordersThisTick, inflight>>
          ELSE /\ ordersThisTick' = [ordersThisTick EXCEPT !.grid = @ + 1]
               /\ inflight' = inflight + 1
               /\ Goto(who, "g_order")
               /\ UNCHANGED buying_or_selling
    /\ UNCHANGED <<initialized, symbol, base_price, grid_size, current_price,
                   INITIAL_GRID, emergency_stop_triggered, open_orders, now,
                   side, sleep_for, riskThisTick, rateAllowed, tickLatched,
                   lastSignal>>
    /\ UNCHANGED <<throttleVars, throttleHist, s1Vars, dashVars>>
    /\ UNCHANGED <<ledgerVars, riskBook, sizing, evaluated, gridVars, probes, botVars, auxVars,
                   order>>

\* A variant of the next definition that submits the order again when
\* create_market_order raised.
_execute_order_done_retry(who) ==
    /\ At(who, "g_order")
    /\ inflight' = inflight - 1
    /\ \E filled \in BOOLEAN, fill_price \in Prices :
          IF filled
          THEN Goto(who, "g_notify") /\ order' = fill_price
          ELSE Goto(who, "g_balance") /\ UNCHANGED order
    /\ UNCHANGED <<initialized, symbol, base_price, grid_size, current_price,
                   buying_or_selling, INITIAL_GRID, emergency_stop_triggered,
                   open_orders, now, side, sleep_for, ordersThisTick,
                   riskThisTick, rateAllowed, tickLatched, lastSignal>>
    /\ UNCHANGED <<throttleVars, throttleHist, s1Vars, dashVars>>
    /\ UNCHANGED <<ledgerVars, riskBook, sizing, evaluated, gridVars, probes, botVars, auxVars>>

\* create_market_order returned the order, filled at the price the market
\* gave: the trade is logged and recorded at current_price and the notification
\* is sent; an exception ends the order, the flag is cleared.
_execute_order_done(who) ==
    /\ At(who, "g_order")
    /\ inflight' = inflight - 1
    /\ \E filled \in BOOLEAN, fill_price \in Prices :
          IF filled
          THEN /\ Goto(who, "g_notify")
               /\ order' = fill_price
               /\ UNCHANGED buying_or_selling
          ELSE /\ Goto(who, "return")
               /\ buying_or_selling' = FALSE
               /\ UNCHANGED order
    /\ UNCHANGED <<initialized, symbol, base_price, grid_size, current_price,
                   INITIAL_GRID, emergency_stop_triggered, open_orders, now,
                   side, sleep_for, ordersThisTick, riskThisTick, rateAllowed,
                   tickLatched, lastSignal>>
    /\ UNCHANGED <<throttleVars, throttleHist, s1Vars, dashVars>>
    /\ UNCHANGED <<ledgerVars, riskBook, sizing, evaluated, gridVars, probes, botVars, auxVars>>

\* send_trade_notification returned: _adjust_grid_after_trade moves base_price
\* to current_price (highest and lowest are None all along), then the finally
\* clause clears the flag and the order is done with.
_adjust_grid_after_trade(who) ==
    /\ At(who, "g_notify")
    /\ base_price' = current_price
    /\ order' = None
    /\ buying_or_selling' = FALSE
    /\ Goto(who, "return")
    /\ UNCHANGED <<initialized, symbol, grid_size, current_price,
                   INITIAL_GRID, emergency_stop_triggered, open_orders, now,
                   side, sleep_for, lastSignal>>
    /\ UNCHANGED <<throttleVars, throttleHist, s1Vars, dashVars, tickHist>>
    /\ UNCHANGED <<ledgerVars, riskBook, sizing, evaluated, gridVars, probes, botVars, auxVars>>

-----------------------------------------------------------------------------
(* RiskManager *)

\* The event names that hold one of the words handle_risk_event looks for
\* (emergency, extreme); check_all_risks passes "multiple risks triggered".
EmergencyEvents == {"emergency", "extreme volatility"}

\* The risk_level arguments of send_risk_alert's callers: the keys of
\* risk_alerts.
RiskKinds == {"POSITION_LOW", "POSITION_HIGH", "MAX_DRAWDOWN"}
NoAlert == 0    \* the kind is no key of risk_alerts
NoAlerted == [made |-> FALSE, kind |-> Nil, at |-> 0, sent |-> FALSE,
              previous |-> [k \in RiskKinds |-> NoAlert],
              lastSent |-> [k \in RiskKinds |-> NoAlert]]

MultipleRisksEvent == "multiple risks triggered"

\* get_statistics has not been called.
NoStatistics == [made |-> FALSE, consecutive_wins |-> 0,
                 consecutive_losses |-> 0]

\* main_loop has had no signal.
NoSignalled == [symbol |-> Nil, price |-> 0, base_price |-> 0]

\* _calculate_adjustment_amount has not been called.
NoAdjust == [made |-> FALSE, side |-> Nil, change |-> 0, total_assets |-> 0,
             free |-> 0, price |-> 0, step |-> 1, clipped |-> 0, amount |-> 0,
             executed |-> FALSE, min_notional |-> 0, free_now |-> 0,
             submitted |-> FALSE]

\* The position ratios of TradingConfig (%), and no request yet.
DefaultConfig == [MIN_POSITION_RATIO |-> 10, MAX_POSITION_RATIO |-> 90]
NoUpdate == [n |-> 0, status |-> Nil, before |-> DefaultConfig]

\* What check_volatility_risk finds in trader.price_history: fewer than 20
\* prices, or a volatility up to 10%, up to 20%, or above ("extreme"; only
\* this one is a violation).  Nothing under src/ writes price_history.
VolatilityLevels == {"short", "low", "high", "extreme"}

\* GridTrader.emergency_stop as trigger_emergency_stop calls it: the flag is
\* cleared and the open orders are cancelled (nothing is, when fetching or
\* cancelling them fails).
emergency_stop ==
    /\ buying_or_selling' = FALSE
    /\ \E cancelled \in BOOLEAN :
          open_orders' = IF cancelled THEN 0 ELSE open_orders

\* trigger_emergency_stop: nothing when already latched.
trigger_emergency_stop ==
    IF emergency_stop_triggered
    THEN UNCHANGED <<emergency_stop_triggered, buying_or_selling, open_orders>>
    ELSE emergency_stop_triggered' = TRUE /\ emergency_stop

\* A variant of the next definition in which an event that is no emergency
\* takes the stop back.
handle_risk_event_unlatching(event_type) ==
    IF event_type \in EmergencyEvents
    THEN /\ trigger_emergency_stop
         /\ pc' = "top"
         /\ UNCHANGED sleep_for
    ELSE /\ buying_or_selling' = TRUE
         /\ pc' = "risk_pause"
         /\ sleep_for' = RISK_PAUSE
         /\ emergency_stop_triggered' = FALSE
         /\ UNCHANGED open_orders

\* handle_risk_event up to its suspension: an emergency event latches the stop
\* and check_all_risks returns False (main_loop continues at once); any other
\* event sets the busy flag and sleeps 60 s.
handle_risk_event(event_type) ==
    IF event_type \in EmergencyEvents
    THEN /\ trigger_emergency_stop
         /\ pc' = "top"
         /\ UNCHANGED sleep_for
    ELSE /\ buying_or_selling' = TRUE
         /\ pc' = "risk_pause"
         /\ sleep_for' = RISK_PAUSE
         /\ UNCHANGED <<emergency_stop_triggered, open_orders>>

-----------------------------------------------------------------------------
(* RiskManager: what check_max_drawdown and check_daily_loss_limit keep of   *)
(* the assets                                                                *)

MAX_DRAWDOWN_PCT == -15         \* MAX_DRAWDOWN = -0.15
DAILY_LOSS_LIMIT_PCT == -5      \* DAILY_LOSS_LIMIT = -0.05
MINUTES_PER_DAY == 1440

\* The total assets _get_total_assets may return (0 before the first balance).
Assets == {0, 80, 100, 120}

\* datetime.now().date(), as the number of the day.
Date(t) == t \div MINUTES_PER_DAY

\* A variant of the next definition that takes every value as the maximum.
MaxAfterAlways(current_assets) == current_assets

\* check_max_drawdown: the maximum after current_assets has been seen.
MaxAfter(current_assets) ==
    IF current_assets > max_asset_value THEN current_assets
    ELSE max_asset_value

\* check_max_drawdown.
check_max_drawdown(current_assets) ==
    LET max == MaxAfter(current_assets)
        drawdown_risk ==
           /\ max > 0
           /\ (current_assets - max) * 100 < MAX_DRAWDOWN_PCT * max
    IN  /\ max_asset_value' = max
        /\ lastDrawdown' = [made |-> TRUE, assets |-> current_assets,
                            risk |-> drawdown_risk]

\* _is_new_day: no date recorded yet, or today is after the last one.
_is_new_day ==
    \/ daily_pnl_history = << >>
    \/ Date(now) > daily_pnl_history[Len(daily_pnl_history)]

\* check_daily_loss_limit: the first check sets the anchor, a check on a new
\* day re-sets it and records the date, any other check compares the assets
\* with the anchor (an anchor of 0 raises ZeroDivisionError: no violation).
check_daily_loss_limit(current_assets) ==
    LET outcome ==
           IF daily_start_assets = NoAssets THEN "init"
           ELSE IF _is_new_day THEN "new_day"
           ELSE IF daily_start_assets = 0 THEN "error"
           ELSE IF (current_assets - daily_start_assets) * 100
                      < DAILY_LOSS_LIMIT_PCT * daily_start_assets THEN "loss"
           ELSE "ok"
    IN  /\ daily_start_assets' = IF outcome \in {"init", "new_day"}
                                 THEN current_assets ELSE daily_start_assets
        /\ daily_pnl_history' = IF outcome = "new_day"
                                THEN Append(daily_pnl_history, Date(now))
                                ELSE daily_pnl_history
        /\ lastDaily' = [made |-> TRUE, assets |-> current_assets,
                         outcome |-> outcome, date |-> Date(now),
                         anchored |-> lastDaily.anchorDate,
                         anchorDate |-> IF outcome \in {"init", "new_day"}
                                        THEN Date(now) ELSE lastDaily.anchorDate]

-----------------------------------------------------------------------------
(* PositionController (S1) *)

S1_SELL_TARGET_PCT == 50
S1_BUY_TARGET_PCT == 70

\* The 52-day low and high _fetch_and_calculate_s1_levels may compute; None
\* when the candles are too few or the fetch fails.
KlineLevels == {NoLevels, [low |-> 90, high |-> 110]}

\* The position ratios (%) _get_current_position_ratio may return.
PositionRatios == {30, 60, 80}

\* _check_s1_strategy: "sell", "buy" or "none" from the price position in
\* the low..high range and the position ratio.
S1Decision(levels, price, ratio) ==
    IF levels = NoLevels \/ price = None THEN "none"
    ELSE IF levels.high - levels.low <= 0 THEN "none"
    ELSE IF /\ (price - levels.low) * 10 >= 8 * (levels.high - levels.low)
            /\ ratio > S1_SELL_TARGET_PCT THEN "sell"
    ELSE IF /\ (price - levels.low) * 10 <= 2 * (levels.high - levels.low)
            /\ ratio < S1_BUY_TARGET_PCT THEN "buy"
    ELSE "none"

\* A variant of the next definition that sizes from the whole exposure.
S1TargetChangeWhole(decision, ratio) ==
    IF decision = "sell" THEN ratio
    ELSE IF decision = "buy" THEN S1_BUY_TARGET_PCT
    ELSE 0

\* target_reduction and target_increase of _check_s1_strategy, in points of
\* the position ratio: what _calculate_adjustment_amount sizes the order from.
S1TargetChange(decision, ratio) ==
    IF decision = "sell" THEN ratio - S1_SELL_TARGET_PCT
    ELSE IF decision = "buy" THEN S1_BUY_TARGET_PCT - ratio
    ELSE 0

\* check_and_execute after update_daily_s1_levels, with the levels it left:
\* the re-check interval, then the cooldown, then _check_s1_strategy up to
\* its first suspension (fetch_balance in _get_current_position_ratio).
S1Gate(levels) ==
    IF now - last_position_check < position_check_interval
    THEN pc' = "assets" /\ UNCHANGED last_position_check
    ELSE /\ last_position_check' = now
         /\ pc' = IF now - last_adjustment_time < adjustment_cooldown
                  THEN "assets"
                  ELSE IF levels = NoLevels \/ current_price = None THEN "assets"
                  ELSE IF levels.high - levels.low <= 0 THEN "assets"
                  ELSE "s1_ratio"

\* A variant of the next definition that fetches the candles in every call.
check_and_execute_always ==
    pc' = "s1_klines" /\ UNCHANGED last_position_check

\* check_and_execute up to its first suspension.
check_and_execute ==
    IF now - s1_last_data_update_ts >= daily_update_interval
    THEN pc' = "s1_klines" /\ UNCHANGED last_position_check
    ELSE S1Gate(s1_levels)

-----------------------------------------------------------------------------
(* GridTrader.main_loop *)

CanSleep(d) == now + d <= StartTime + MaxTime

\* The top of the while loop: not initialized, sleep 5 s (less than a unit: the
\* clock may or may not pass a unit's end) and start over; else fetch the ticker.
LoopTop ==
    /\ pc = "top"
    /\ ordersThisTick' = [grid |-> 0, S1 |-> 0]
    /\ tickLatched' = emergency_stop_triggered
    /\ riskThisTick' = "none"
    /\ rateAllowed' = FALSE
    /\ IF ~initialized
       THEN pc' = "sleep" /\ sleep_for' \in {0, 1}
       ELSE pc' = "ticker" /\ UNCHANGED sleep_for
    /\ UNCHANGED <<traderVars, limit, interval, now, side, sig, inflight,
                   lastSignal>>
    /\ UNCHANGED <<throttleHist, dashVars>>
    /\ UNCHANGED <<ledgerVars, riskBook, sizing, evaluated, gridVars, probes, botVars, auxVars,
                   order>>

\* _get_latest_price returned: the ticker's last price, or base_price when the
\* fetch failed; then _check_trading_signals.  (base_price is never 0 or None
\* here, so the "if not self.current_price" branch is not taken.)
PollPrice ==
    /\ pc = "ticker"
    /\ \E ticker \in Prices \cup {None} :
          LET price == IF ticker = None THEN base_price ELSE ticker IN
          /\ current_price' = price
          /\ _check_trading_signals("loop", price)
    /\ UNCHANGED <<initialized, symbol, base_price, grid_size, INITIAL_GRID,
                   emergency_stop_triggered, open_orders, now, sleep_for,
                   lastSignal>>
    /\ UNCHANGED <<throttleVars, throttleHist, s1Vars, dashVars, tickHist>>
    /\ UNCHANGED <<ledgerVars, riskBook, sizing, evaluated, gridVars, probes, botVars, auxVars,
                   order>>

\* _check_grid_adjustment after fetch_ohlcv returned, then check_all_risks up to
\* its first suspension: with the stop latched it returns False and main_loop
\* continues at the top of the loop, without a sleep.
GridAdjustment ==
    /\ pc = "ohlcv"
    /\ \E volatility \in Volatilities : _check_grid_adjustment(volatility)
    /\ IF emergency_stop_triggered
       THEN pc' = "top" /\ riskThisTick' = "latched"
       ELSE pc' = "risk" /\ UNCHANGED riskThisTick
    /\ UNCHANGED <<initialized, symbol, base_price, current_price,
                   buying_or_selling, INITIAL_GRID, emergency_stop_triggered,
                   open_orders, now, side, sleep_for, sig, ordersThisTick,
                   inflight, rateAllowed, tickLatched, lastSignal>>
    /\ UNCHANGED <<throttleVars, throttleHist, s1Vars, dashVars>>
    /\ UNCHANGED <<ledgerVars, riskBook, sizing, evaluated, gridVars, probes, botVars, auxVars,
                   order>>

\* check_all_risks once its four checks have returned: any violation goes to
\* handle_risk_event, with the one event name check_all_risks has; without a
\* violation main_loop goes on to check_and_execute.
CheckAllRisks ==
    /\ pc = "risk"
    /\ \E position_risk, drawdown_risk, daily_loss_risk \in BOOLEAN,
          volatility \in VolatilityLevels :
          LET volatility_risk == volatility = "extreme"
              risk_triggered == \/ position_risk \/ drawdown_risk
                                \/ daily_loss_risk \/ volatility_risk
          IN  IF risk_triggered
              THEN /\ handle_risk_event(MultipleRisksEvent)
                   /\ riskThisTick' = IF volatility_risk THEN "extreme" ELSE "veto"
                   /\ UNCHANGED last_position_check
              ELSE /\ check_and_execute
                   /\ riskThisTick' = "ok"
                   /\ UNCHANGED <<buying_or_selling, emergency_stop_triggered,
                                  open_orders, sleep_for>>
    /\ UNCHANGED <<initialized, symbol, base_price, grid_size, current_price,
                   INITIAL_GRID, now, side, sig, ordersThisTick, inflight,
                   rateAllowed, tickLatched, lastSignal, s1_levels,
                   s1_last_data_update_ts, last_adjustment_time>>
    /\ UNCHANGED <<throttleVars, throttleHist, dashVars>>
    /\ UNCHANGED <<ledgerVars, riskBook, sizing, evaluated, gridVars, probes, botVars, auxVars,
                   order>>

\* A variant of the next definition that leaves the busy flag set.
RiskPauseEndBusy ==
    /\ pc = "risk_pause"
    /\ CanSleep(sleep_for)
    /\ now' = now + sleep_for
    /\ sleep_for' = 0
    /\ pc' = "top"
    /\ UNCHANGED <<initialized, symbol, base_price, grid_size, current_price,
                   buying_or_selling, INITIAL_GRID, emergency_stop_triggered,
                   open_orders, side, sig, lastSignal>>
    /\ UNCHANGED <<throttleVars, throttleHist, s1Vars, dashVars, tickHist>>
    /\ UNCHANGED <<ledgerVars, riskBook, sizing, evaluated, gridVars, probes,
                   botVars, auxVars, order>>

\* The 60 s of handle_risk_event are over: the busy flag is cleared,
\* check_all_risks returns False and main_loop continues at the top.
RiskPauseEnd ==
    /\ pc = "risk_pause"
    /\ CanSleep(sleep_for)
    /\ now' = now + sleep_for
    /\ sleep_for' = 0
    /\ buying_or_selling' = FALSE
    /\ pc' = "top"
    /\ UNCHANGED <<initialized, symbol, base_price, grid_size, current_price,
                   INITIAL_GRID, emergency_stop_triggered, open_orders, side,
                   sig, lastSignal>>
    /\ UNCHANGED <<throttleVars, throttleHist, s1Vars, dashVars, tickHist>>
    /\ UNCHANGED <<ledgerVars, riskBook, sizing, evaluated, gridVars, probes, botVars, auxVars,
                   order>>


\* _fetch_and_calculate_s1_levels after fetch_ohlcv returned, then the rest of
\* check_and_execute.
S1UpdateLevels ==
    /\ pc = "s1_klines"
    /\ \E levels \in KlineLevels :
          IF levels = NoLevels
          THEN /\ UNCHANGED <<s1_levels, s1_last_data_update_ts>>
               /\ S1Gate(s1_levels)
          ELSE /\ s1_levels' = levels
               /\ s1_last_data_update_ts' = now
               /\ S1Gate(levels)
    /\ UNCHANGED <<initialized, symbol, base_price, grid_size, current_price,
                   buying_or_selling, INITIAL_GRID, emergency_stop_triggered,
                   open_orders, now, last_adjustment_time, side, sleep_for, sig,
                   lastSignal>>
    /\ UNCHANGED <<throttleVars, throttleHist, dashVars, tickHist>>
    /\ UNCHANGED <<ledgerVars, riskBook, sizing, evaluated, gridVars, probes, botVars, auxVars,
                   order>>

\* _check_s1_strategy after _get_current_position_ratio returned: a sell or a
\* buy goes on to _calculate_adjustment_amount (it waits for fetch_balance).
S1CheckStrategy ==
    /\ pc = "s1_ratio"
    /\ \E ratio \in PositionRatios :
          LET decision == S1Decision(s1_levels, current_price, ratio) IN
          IF decision = "none"
          THEN pc' = "assets" /\ UNCHANGED side
          ELSE pc' = "s1_amount" /\ side' = decision
    /\ UNCHANGED <<traderVars, limit, interval, now, sleep_for, sig, lastSignal>>
    /\ UNCHANGED <<throttleHist, dashVars, tickHist>>
    /\ UNCHANGED <<ledgerVars, riskBook, sizing, evaluated, gridVars, probes, botVars, auxVars,
                   order>>

\* _calculate_adjustment_amount returned; with an amount _execute_s1_adjustment
\* starts: check_rate first, then the precision and minimum-notional checks,
\* then it waits for fetch_balance in _check_balance_for_adjustment.
S1Adjustment ==
    /\ pc = "s1_amount"
    /\ \E amount \in {0, 1}, notional_ok \in BOOLEAN :
          IF amount <= 0
          THEN /\ pc' = "assets"
               /\ UNCHANGED <<throttleVars, throttleHist, rateAllowed>>
          ELSE /\ check_rate
               /\ rateAllowed' = RateAllows(now)
               /\ pc' = IF RateAllows(now) /\ notional_ok THEN "s1_balance"
                        ELSE "assets"
    /\ UNCHANGED <<initialized, symbol, base_price, grid_size, current_price,
                   buying_or_selling, INITIAL_GRID, emergency_stop_triggered,
                   open_orders, now, side, sleep_for, sig, ordersThisTick,
                   riskThisTick, inflight, tickLatched, lastSignal>>
    /\ UNCHANGED <<s1Vars, dashVars>>
    /\ UNCHANGED <<ledgerVars, riskBook, sizing, evaluated, gridVars, probes, botVars, auxVars,
                   order>>

\* _check_balance_for_adjustment returned: with the balance there,
\* create_market_order is called for the symbol the trader has now.
S1SubmitOrder ==
    /\ pc = "s1_balance"
    /\ \E enough \in BOOLEAN :
          IF enough
          THEN /\ ordersThisTick' = [ordersThisTick EXCEPT !.S1 = @ + 1]
               /\ inflight' = inflight + 1
               /\ pc' = "s1_order"
          ELSE /\ pc' = "assets"
               /\ UNCHANGED <<ordersThisTick, inflight>>
    /\ UNCHANGED <<traderVars, limit, interval, now, side, sleep_for, sig,
                   riskThisTick, rateAllowed, tickLatched, lastSignal>>
    /\ UNCHANGED <<throttleHist, dashVars>>
    /\ UNCHANGED <<ledgerVars, riskBook, sizing, evaluated, gridVars, probes, botVars, auxVars,
                   order>>

\* create_market_order returned: the trade is recorded and the notification is
\* sent; an exception ends _execute_s1_adjustment.
S1OrderDone ==
    /\ pc = "s1_order"
    /\ inflight' = inflight - 1
    /\ \E filled \in BOOLEAN : pc' = IF filled THEN "s1_notify" ELSE "assets"
    /\ UNCHANGED <<traderVars, limit, interval, now, side, sleep_for, sig,
                   ordersThisTick, riskThisTick, rateAllowed, tickLatched,
                   lastSignal>>
    /\ UNCHANGED <<throttleHist, dashVars>>
    /\ UNCHANGED <<ledgerVars, riskBook, sizing, evaluated, gridVars, probes, botVars, auxVars,
                   order>>

\* A variant of the next definition that re-anchors the grid as the grid
\* engine does after its own trades.
S1AdjustedReanchoring ==
    /\ pc = "s1_notify"
    /\ last_adjustment_time' = now
    /\ base_price' = current_price
    /\ pc' = "assets"
    /\ UNCHANGED <<initialized, symbol, grid_size, current_price,
                   buying_or_selling, INITIAL_GRID, emergency_stop_triggered,
                   open_orders, now, s1_levels, s1_last_data_update_ts,
                   last_position_check, side, sleep_for, sig, lastSignal>>
    /\ UNCHANGED <<throttleVars, throttleHist, dashVars, tickHist>>
    /\ UNCHANGED <<ledgerVars, riskBook, sizing, evaluated, gridVars, probes, botVars, auxVars,
                   order>>

\* send_trade_notification returned: last_adjustment_time is set.
S1Adjusted ==
    /\ pc = "s1_notify"
    /\ last_adjustment_time' = now
    /\ pc' = "assets"
    /\ UNCHANGED <<initialized, symbol, base_price, grid_size, current_price,
                   buying_or_selling, INITIAL_GRID, emergency_stop_triggered,
                   open_orders, now, s1_levels, s1_last_data_update_ts,
                   last_position_check, side, sleep_for, sig, lastSignal>>
    /\ UNCHANGED <<throttleVars, throttleHist, dashVars, tickHist>>
    /\ UNCHANGED <<ledgerVars, riskBook, sizing, evaluated, gridVars, probes, botVars, auxVars,
                   order>>

\* _update_total_assets and _calculate_dynamic_interval: 60 s without a
\* volatility, else the interval of the volatility's range.
DynamicInterval ==
    /\ pc = "assets"
    /\ \E volatility \in Volatilities :
          sleep_for' = IF volatility = NoVolatility THEN DEFAULT_SLEEP
                       ELSE get_interval_by_volatility(volatility)
    /\ pc' = "sleep"
    /\ UNCHANGED <<traderVars, limit, interval, now, side, sig, lastSignal>>
    /\ UNCHANGED <<throttleHist, dashVars, tickHist>>
    /\ UNCHANGED <<ledgerVars, riskBook, sizing, evaluated, gridVars, probes, botVars, auxVars,
                   order>>

\* asyncio.sleep is over; the loop starts over.
Sleep ==
    /\ pc = "sleep"
    /\ CanSleep(sleep_for)
    /\ now' = now + sleep_for
    /\ sleep_for' = 0
    /\ pc' = "top"
    /\ UNCHANGED <<traderVars, limit, interval, side, sig, lastSignal>>
    /\ UNCHANGED <<throttleHist, dashVars, tickHist>>
    /\ UNCHANGED <<ledgerVars, riskBook, sizing, evaluated, gridVars, probes, botVars, auxVars,
                   order>>

-----------------------------------------------------------------------------
(* Other tasks of the event loop; they run while main_loop is suspended. *)

Suspended == pc # "top"

\* WebServer.handle_switch_symbol up to its first suspension: the configuration
\* and the trader get the new symbol, _reinitialize clears initialized and
\* initialize waits for the market data of the base price (INITIAL_BASE_PRICE
\* is 0.0 for the symbols under src/, so the base price is calculated).
handle_switch_symbol(new_symbol) ==
    /\ Suspended
    /\ dpc = "idle"
    /\ _load_symbol_specific_config(new_symbol)
    /\ symbol' = new_symbol
    /\ initialized' = FALSE
    /\ dpc' = "base_price"
    /\ UNCHANGED <<pc, base_price, grid_size, current_price, buying_or_selling,
                   INITIAL_GRID, emergency_stop_triggered, open_orders, now,
                   side, sleep_for, sig, lastSignal>>
    /\ UNCHANGED <<throttleVars, throttleHist, s1Vars, tickHist>>
    /\ UNCHANGED <<ledgerVars, riskBook, sizing, evaluated, adjusted, probes, botVars, auxVars,
                   order>>

\* _setup_base_price: base_price is set from the market data; without a valid
\* price initialize raises and the trader stays uninitialized.
SetupBasePrice ==
    /\ Suspended
    /\ dpc = "base_price"
    /\ \E price \in Prices \cup {None} :
          IF price = None
          THEN dpc' = "idle" /\ UNCHANGED base_price
          ELSE dpc' = "sync" /\ base_price' = price
    /\ UNCHANGED <<pc, initialized, symbol, grid_size, current_price,
                   buying_or_selling, INITIAL_GRID, emergency_stop_triggered,
                   open_orders, now, side, sleep_for, sig, lastSignal>>
    /\ UNCHANGED <<throttleVars, throttleHist, s1Vars, tickHist>>
    /\ UNCHANGED <<ledgerVars, riskBook, sizing, evaluated, gridVars, probes, botVars, auxVars,
                   order>>

\* _sync_recent_trades returned: initialize sets initialized.
Initialized ==
    /\ Suspended
    /\ dpc = "sync"
    /\ initialized' = TRUE
    /\ dpc' = "idle"
    /\ UNCHANGED <<pc, symbol, base_price, grid_size, current_price,
                   buying_or_selling, INITIAL_GRID, emergency_stop_triggered,
                   open_orders, now, side, sleep_for, sig, lastSignal>>
    /\ UNCHANGED <<throttleVars, throttleHist, s1Vars, tickHist>>
    /\ UNCHANGED <<ledgerVars, riskBook, sizing, evaluated, gridVars, probes, botVars, auxVars,
                   order>>

\* WebServer.handle_update_config for the field initial_grid: setattr on the
\* trader's configuration, in the handler.
handle_update_config(value) ==
    /\ Suspended
    /\ dpc = "idle"
    /\ INITIAL_GRID # value
    /\ INITIAL_GRID' = value
    /\ UNCHANGED <<pc, initialized, symbol, base_price, grid_size, current_price,
                   buying_or_selling, emergency_stop_triggered, open_orders,
                   now, side, sleep_for, sig, lastSignal>>
    /\ UNCHANGED <<throttleVars, throttleHist, s1Vars, dashVars, tickHist>>
    /\ UNCHANGED <<ledgerVars, riskBook, sizing, evaluated, gridVars, probes, botVars, auxVars,
                   order>>

\* RiskManager.trigger_emergency_stop called from outside check_all_risks.
TriggerEmergencyStop ==
    /\ Suspended
    /\ ~emergency_stop_triggered
    /\ trigger_emergency_stop
    /\ UNCHANGED <<pc, initialized, symbol, base_price, grid_size, current_price,
                   INITIAL_GRID, now, side, sleep_for, sig, lastSignal>>
    /\ UNCHANGED <<throttleVars, throttleHist, s1Vars, dashVars, tickHist>>
    /\ UNCHANGED <<ledgerVars, riskBook, sizing, evaluated, gridVars, probes, botVars, auxVars,
                   order>>

\* RiskManager.reset_risk_state.
reset_risk_state ==
    /\ Suspended
    /\ emergency_stop_triggered' = FALSE
    /\ risk_alerts' = [k \in RiskKinds |-> NoAlert]
    /\ max_asset_value' = 0
    /\ daily_start_assets' = NoAssets
    /\ UNCHANGED <<pc, initialized, symbol, base_price, grid_size, current_price,
                   buying_or_selling, INITIAL_GRID, open_orders, now, side,
                   sleep_for, sig, lastSignal>>
    /\ UNCHANGED <<throttleVars, throttleHist, s1Vars, dashVars, tickHist>>
    /\ UNCHANGED <<ledgerVars, daily_pnl_history, lastDrawdown, lastDaily,
                   sizing, evaluated, gridVars, probes, botVars, alerted,
                   configVars, statsVars, moreVars, order>>

-----------------------------------------------------------------------------
(* The program: main_loop and the dashboard, after GridTradingBot.start *)

NoSignal == [n |-> 0, who |-> Nil, outcome |-> "none"]
NoFile == [exists |-> FALSE, trades |-> << >>]
NoAdd == [n |-> 0, trade |-> [order_id |-> 0, missing |-> Nil, bad |-> Nil],
          outcome |-> "none"]
NoDrawdown == [made |-> FALSE, assets |-> 0, risk |-> FALSE]
NoDaily == [made |-> FALSE, assets |-> 0, outcome |-> "none", date |-> 0,
            anchored |-> 0, anchorDate |-> 0]
NoEvaluation == [made |-> FALSE, price |-> 0, buy |-> FALSE, sell |-> FALSE,
                 outcome |-> "none"]
NoAdjustment == [made |-> FALSE, volatility |-> NoVolatility, before |-> 0,
                 suggested |-> 0]
NoS1Check == [made |-> FALSE, levels |-> NoLevels, price |-> 0, ratio |-> 0,
              side |-> "none", change |-> 0]
NoIntervalFor == [made |-> FALSE, volatility |-> NoVolatility, interval |-> 0]
NoFailure == [n |-> 0, step |-> Nil]

NoSizing == [side |-> Nil, free |-> 0, price |-> 0, amount |-> 0]
NoCall == [made |-> FALSE, time |-> 0, allowed |-> FALSE, inWindow |-> 0,
           recorded |-> 0]

\* GridTrader.__init__ with its collaborators: all but the price and the grid.
Components ==
    /\ initialized = TRUE
    /\ symbol = "BNB/USDT"
    /\ buying_or_selling = FALSE
    /\ emergency_stop_triggered = FALSE
    /\ open_orders = 1
    /\ order_timestamps = << >>
    /\ now = StartTime
    /\ s1_levels = NoLevels
    /\ s1_last_data_update_ts = 0
    /\ last_position_check = 0
    /\ last_adjustment_time = 0
    /\ side = Nil
    /\ sleep_for = 0
    /\ dpc = "idle"
    /\ ordersThisTick = [grid |-> 0, S1 |-> 0]
    /\ tickLatched = FALSE
    /\ lastSignal = NoSignal
    /\ riskThisTick = "none"
    /\ inflight = 0
    /\ rateAllowed = FALSE
    /\ allowedAt = << >>
    /\ lastCall = NoCall
    /\ trade_history = << >>
    /\ history_file = NoFile
    /\ backup_file = NoFile
    /\ archives = << >>
    /\ max_asset_value = 0
    /\ daily_start_assets = NoAssets
    /\ daily_pnl_history = << >>
    /\ order = None
    /\ accepted = << >>
    /\ lastAdd = NoAdd
    /\ writeFailures = 0
    /\ lastDrawdown = NoDrawdown
    /\ lastDaily = NoDaily
    /\ sizing = NoSizing
    /\ evaluated = NoEvaluation
    /\ adjusted = NoAdjustment
    /\ s1Checked = NoS1Check
    /\ intervalFor = NoIntervalFor
    /\ s1OrderedAt = 0
    /\ failedStep = NoFailure
    /\ running = TRUE
    /\ web_task = "serving"
    /\ risk_alerts = [k \in RiskKinds |-> NoAlert]
    /\ alerted = NoAlerted
    /\ config = DefaultConfig
    /\ updated = NoUpdate
    /\ profits = << >>
    /\ statistics = NoStatistics
    /\ refreshes = << >>
    /\ adjustment = NoAdjust
    /\ signalled = NoSignalled
    /\ GRID_PARAMS = VolatilityRanges

\* GridTrader.__init__ with its RiskManager and PositionController, and
\* initialize: base_price is the price the market had.
Constructed ==
    /\ base_price \in Prices
    /\ grid_size = DEFAULT_INITIAL_GRID
    /\ INITIAL_GRID = DEFAULT_INITIAL_GRID
    /\ Components

Init ==
    /\ Constructed
    /\ pc = "top"
    /\ sig = [c \in Callers |-> "off"]
    /\ current_price = None
    /\ limit = DEFAULT_LIMIT
    /\ interval = DEFAULT_INTERVAL

Next ==
    \/ LoopTop
    \/ PollPrice
    \/ _execute_order_amount("loop")
    \/ _execute_order_done("loop")
    \/ _adjust_grid_after_trade("loop")
    \/ GridAdjustment
    \/ CheckAllRisks
    \/ RiskPauseEnd
    \/ S1UpdateLevels
    \/ S1CheckStrategy
    \/ S1Adjustment
    \/ S1SubmitOrder
    \/ S1OrderDone
    \/ S1Adjusted
    \/ DynamicInterval
    \/ Sleep
    \/ \E new_symbol \in Symbols : handle_switch_symbol(new_symbol)
    \/ SetupBasePrice
    \/ Initialized
    \/ \E value \in GridSettings : handle_update_config(value)
    \/ TriggerEmergencyStop
    \/ reset_risk_state

Spec == Init /\ [][Next]_vars

-----------------------------------------------------------------------------
(* OrderThrottler alone: any limit and interval, calls at any time *)

\* What check_rate and the clock leave alone.
notThrottle == <<pc, initialized, symbol, base_price, grid_size, current_price,
                 buying_or_selling, INITIAL_GRID, emergency_stop_triggered,
                 open_orders, s1_levels, s1_last_data_update_ts,
                 last_position_check, last_adjustment_time, side, sleep_for,
                 dpc, sig, ordersThisTick, tickLatched, lastSignal,
                 riskThisTick, inflight, rateAllowed>>

\* OrderThrottler(limit, interval).
InitThrottle ==
    /\ Constructed
    /\ pc = "off"
    /\ sig = [c \in Callers |-> "off"]
    /\ current_price = None
    /\ limit \in 1..MaxLimit
    /\ interval \in 1..MaxInterval

\* A call of check_rate.
ThrottleCall ==
    /\ pc = "off"
    /\ check_rate
    /\ UNCHANGED <<now, notThrottle>>
    /\ UNCHANGED <<ledgerVars, riskBook, sizing, evaluated, gridVars, probes, botVars, auxVars,
                   order>>

\* time.time() moves on.
ThrottleTick ==
    /\ pc = "off"
    /\ now < StartTime + MaxThrottleTime
    /\ now' = now + 1
    /\ UNCHANGED <<throttleVars, throttleHist, notThrottle>>
    /\ UNCHANGED <<ledgerVars, riskBook, sizing, evaluated, gridVars, probes, botVars, auxVars,
                   order>>

NextThrottle == ThrottleCall \/ ThrottleTick

SpecThrottle == InitThrottle /\ [][NextThrottle]_vars

-----------------------------------------------------------------------------
(* _check_trading_signals called by tasks of their own, while the price moves *)

InitSignals ==
    /\ Constructed
    /\ pc = "off"
    /\ sig = [c \in Callers |-> "idle"]
    /\ current_price \in Prices
    /\ limit = DEFAULT_LIMIT
    /\ interval = DEFAULT_INTERVAL

\* A task calls _check_trading_signals for the price the trader has.
CallSignals(c) ==
    /\ sig[c] = "idle"
    /\ lastSignal.n < MaxCalls
    /\ lastSignal' = [n |-> lastSignal.n + 1, who |-> c,
                      outcome |-> SignalOutcome(current_price)]
    /\ _check_trading_signals(c, current_price)
    /\ UNCHANGED <<initialized, symbol, base_price, grid_size, current_price,
                   INITIAL_GRID, emergency_stop_triggered, open_orders, now,
                   sleep_for>>
    /\ UNCHANGED <<throttleVars, throttleHist, s1Vars, dashVars, tickHist>>
    /\ UNCHANGED <<ledgerVars, riskBook, sizing, evaluated, gridVars, probes, botVars, auxVars,
                   order>>

\* main_loop's assignment of the latest price to current_price.
UpdatePrice ==
    /\ \E c \in Callers : sig[c] # "off"
    /\ \E ticker \in Prices :
          /\ ticker # current_price
          /\ current_price' = ticker
    /\ UNCHANGED <<pc, initialized, symbol, base_price, grid_size,
                   buying_or_selling, INITIAL_GRID, emergency_stop_triggered,
                   open_orders, now, side, sleep_for, sig, lastSignal>>
    /\ UNCHANGED <<throttleVars, throttleHist, s1Vars, dashVars, tickHist>>
    /\ UNCHANGED <<ledgerVars, riskBook, sizing, evaluated, gridVars, probes, botVars, auxVars,
                   order>>

NextSignals ==
    \/ \E c \in Callers : CallSignals(c)
    \/ \E c \in Callers : _execute_order_amount(c)
    \/ \E c \in Callers : _execute_order_done(c)
    \/ \E c \in Callers : _adjust_grid_after_trade(c)
    \/ UpdatePrice

SpecSignals == InitSignals /\ [][NextSignals]_vars

-----------------------------------------------------------------------------
(* OrderTracker alone: trades of any kind are added *)

notLedger == <<pc, initialized, symbol, base_price, grid_size, current_price,
               buying_or_selling, INITIAL_GRID, emergency_stop_triggered,
               open_orders, order_timestamps, limit, interval, now, s1_levels,
               s1_last_data_update_ts, last_position_check,
               last_adjustment_time, side, sleep_for, dpc, sig, ordersThisTick,
               tickLatched, lastSignal, riskThisTick, inflight, rateAllowed,
               allowedAt, lastCall, riskBook, order, sizing, evaluated,
               gridVars, probes, botVars, auxVars>>

\* OrderTracker.__init__ in a new data directory.
InitLedger ==
    /\ Constructed
    /\ pc = "ledger"
    /\ sig = [c \in Callers |-> "off"]
    /\ current_price = None
    /\ limit = DEFAULT_LIMIT
    /\ interval = DEFAULT_INTERVAL

\* The order ids a trade may come with: a new one, the oldest and the newest
\* of the history, and the first id ever accepted.
CandidateIds ==
    {Len(accepted) + 1, 1}
       \cup (IF trade_history = << >> THEN {}
             ELSE {trade_history[1], trade_history[Len(trade_history)]})

\* The trades add_trade is called with: whole ones, and ones with one defect.
Trades ==
    {[order_id |-> i, missing |-> Nil, bad |-> Nil] : i \in CandidateIds}
       \cup {[order_id |-> IF m = "order_id" THEN 0 ELSE Len(accepted) + 1,
              missing |-> m, bad |-> Nil] : m \in TradeRecordFields}
       \cup {[order_id |-> Len(accepted) + 1, missing |-> Nil, bad |-> b] :
                b \in NumericFields}

AddTrade ==
    /\ pc = "ledger"
    /\ Len(accepted) < MaxTrades
    /\ \E trade \in Trades : add_trade(trade)
    /\ UNCHANGED notLedger

ArchiveOldTrades ==
    /\ pc = "ledger"
    /\ archive_old_trades
    /\ UNCHANGED notLedger

NextLedger == AddTrade \/ ArchiveOldTrades

SpecLedger == InitLedger /\ [][NextLedger]_vars

-----------------------------------------------------------------------------
(* RiskManager alone: its two checks of the assets, at any time *)

notRiskBook == <<initialized, symbol, base_price, grid_size, current_price,
                 buying_or_selling, INITIAL_GRID, open_orders, order_timestamps,
                 limit, interval, s1_levels, s1_last_data_update_ts,
                 last_position_check, last_adjustment_time, side, sleep_for,
                 dpc, sig, ordersThisTick, tickLatched, lastSignal,
                 riskThisTick, inflight, rateAllowed, allowedAt, lastCall,
                 ledgerVars, order, sizing, evaluated, gridVars, probes, botVars, auxVars>>

InitRisk ==
    /\ Constructed
    /\ pc = "risk_manager"
    /\ sig = [c \in Callers |-> "off"]
    /\ current_price = None
    /\ limit = DEFAULT_LIMIT
    /\ interval = DEFAULT_INTERVAL

CheckMaxDrawdown ==
    /\ pc = "risk_manager"
    /\ \E current_assets \in Assets : check_max_drawdown(current_assets)
    /\ UNCHANGED <<pc, now, emergency_stop_triggered, daily_start_assets,
                   daily_pnl_history, lastDaily, notRiskBook>>

CheckDailyLossLimit ==
    /\ pc = "risk_manager"
    /\ \E current_assets \in Assets : check_daily_loss_limit(current_assets)
    /\ UNCHANGED <<pc, now, emergency_stop_triggered, max_asset_value,
                   lastDrawdown, notRiskBook>>

\* Half a day passes.
RiskClock ==
    /\ pc = "risk_manager"
    /\ now < StartTime + MaxHalfDays * (MINUTES_PER_DAY \div 2)
    /\ now' = now + MINUTES_PER_DAY \div 2
    /\ UNCHANGED <<pc, emergency_stop_triggered, riskBook, notRiskBook>>

NextRisk ==
    \/ CheckMaxDrawdown
    \/ CheckDailyLossLimit
    \/ RiskClock
    \/ reset_risk_state

SpecRisk == InitRisk /\ [][NextRisk]_vars

-----------------------------------------------------------------------------
(* The bands and the signals alone, for any base price, grid and price *)

\* base_price: 0.0 after __init__ (INITIAL_BASE_PRICE), else a price.
BandBases == {0, 60, 92}
BandGrids == {10, 20, 40}
BandInitialGrids == {10, 20, 25}
BandPrices == 56 .. 96

notBands == <<pc, initialized, symbol, base_price, grid_size,
              buying_or_selling, INITIAL_GRID, emergency_stop_triggered,
              open_orders, order_timestamps, limit, interval, now, s1_levels,
              s1_last_data_update_ts, last_position_check,
              last_adjustment_time, side, sleep_for, dpc, sig, ordersThisTick,
              tickLatched, lastSignal, riskThisTick, inflight, rateAllowed,
              allowedAt, lastCall, ledgerVars, riskBook, order, sizing,
              gridVars, probes, botVars, auxVars>>

InitBands ==
    /\ Components
    /\ base_price \in BandBases
    /\ grid_size \in BandGrids
    /\ INITIAL_GRID \in BandInitialGrids
    /\ pc = "bands"
    /\ sig = [c \in Callers |-> "off"]
    /\ current_price = None
    /\ limit = DEFAULT_LIMIT
    /\ interval = DEFAULT_INTERVAL

\* The price is polled and _check_buy_signal and _check_sell_signal are
\* evaluated for it.
EvaluateSignals ==
    /\ pc = "bands"
    /\ \E price \in BandPrices :
          /\ current_price' = price
          /\ evaluated' = [made |-> TRUE, price |-> price,
                           buy |-> _check_buy_signal(price),
                           sell |-> _check_sell_signal(price),
                           outcome |-> SignalOutcome(price)]
    /\ UNCHANGED notBands

NextBands == EvaluateSignals

SpecBands == InitBands /\ [][NextBands]_vars

-----------------------------------------------------------------------------
(* The order amount alone, for any side, free balance and price *)

\* TradingConfig: MIN_TRADE_AMOUNT in quote units, MAX_POSITION_PERCENT in
\* percent.
MIN_TRADE_AMOUNT == 20
MAX_POSITION_PERCENT == 15

\* The free balance fetch_balance reports: whole quote units for a buy,
\* thousandths of the base currency for a sell.
Balances == {0, 10, 50, 100, 130, 131, 132, 133, 134, 135, 140, 200, 500,
             1000, 2000, 5000}
SizingPrices == {60, 92, 108, 600}

\* calculate_trade_amount with _adjust_amount_precision and
\* round_down_to_precision, the instrument's step being 0.001: the amount in
\* thousandths of the base currency.  A buy is given up when the capped quote
\* balance is below MIN_TRADE_AMOUNT; a sell has no such test.
calculate_trade_amount(order_side, free, price) ==
    IF order_side = "buy"
    THEN IF free * MAX_POSITION_PERCENT < MIN_TRADE_AMOUNT * 100
         THEN 0
         ELSE (free * MAX_POSITION_PERCENT * 10) \div price
    ELSE (free * MAX_POSITION_PERCENT) \div 100

notSizing == <<pc, initialized, symbol, base_price, grid_size, current_price,
               buying_or_selling, INITIAL_GRID, emergency_stop_triggered,
               open_orders, order_timestamps, limit, interval, now, s1_levels,
               s1_last_data_update_ts, last_position_check,
               last_adjustment_time, side, sleep_for, dpc, sig, ordersThisTick,
               tickLatched, lastSignal, riskThisTick, inflight, rateAllowed,
               allowedAt, lastCall, ledgerVars, riskBook, order, evaluated,
               gridVars, probes, botVars, auxVars>>

InitSizing ==
    /\ Components
    /\ base_price \in Prices
    /\ grid_size = DEFAULT_INITIAL_GRID
    /\ INITIAL_GRID = DEFAULT_INITIAL_GRID
    /\ pc = "sizing"
    /\ sig = [c \in Callers |-> "off"]
    /\ current_price \in SizingPrices
    /\ limit = DEFAULT_LIMIT
    /\ interval = DEFAULT_INTERVAL

\* _execute_buy_order and _execute_sell_order up to create_market_order: the
\* amount is calculated at current_price, and the order is submitted unless
\* the amount is <= 0.
SizeOrder ==
    /\ pc = "sizing"
    /\ \E order_side \in {"buy", "sell"}, free \in Balances :
          sizing' = [side |-> order_side, free |-> free,
                     price |-> current_price,
                     amount |-> calculate_trade_amount(order_side, free,
                                                       current_price)]
    /\ UNCHANGED notSizing

NextSizing == SizeOrder

SpecSizing == InitSizing /\ [][NextSizing]_vars

-----------------------------------------------------------------------------
(* The grid resize alone, for any volatility, under either table *)

\* _calculate_volatility: None, or the volatility in % (the tables' range
\* limits, values between them and values past the last limit).
GridVolatilities ==
    {NoVolatility} \cup {5 * k : k \in 0 .. 26} \cup {99899, 99900, 100000}

notGrid == <<pc, initialized, base_price, current_price,
             buying_or_selling, INITIAL_GRID, emergency_stop_triggered,
             open_orders, order_timestamps, limit, interval, now, s1_levels,
             s1_last_data_update_ts, last_position_check,
             last_adjustment_time, side, sleep_for, dpc, sig, ordersThisTick,
             tickLatched, lastSignal, riskThisTick, inflight, rateAllowed,
             allowedAt, lastCall, ledgerVars, riskBook, order, sizing,
             evaluated, s1Checked, s1OrderedAt, botVars, auxVars>>

InitGrid ==
    /\ Constructed
    /\ pc = "grid"
    /\ sig = [c \in Callers |-> "off"]
    /\ current_price = None
    /\ limit = DEFAULT_LIMIT
    /\ interval = DEFAULT_INTERVAL

\* _check_grid_adjustment for the volatility _calculate_volatility returned.
CheckGridAdjustment ==
    /\ pc = "grid"
    /\ \E volatility \in GridVolatilities :
          /\ _check_grid_adjustment(volatility)
          /\ adjusted' = [made |-> TRUE, volatility |-> volatility,
                          before |-> grid_size,
                          suggested |->
                             IF volatility = NoVolatility THEN 0
                             ELSE get_grid_size_by_volatility(volatility)]
    /\ UNCHANGED <<symbol, GRID_PARAMS, intervalFor>>
    /\ UNCHANGED notGrid

\* TradingConfig.update_symbol and the assignment of trader.symbol, in
\* handle_switch_symbol.
UpdateSymbol ==
    /\ pc = "grid"
    /\ \E new_symbol \in Symbols :
          /\ _load_symbol_specific_config(new_symbol)
          /\ symbol' = new_symbol
    /\ UNCHANGED <<grid_size, adjusted, intervalFor>>
    /\ UNCHANGED notGrid

NextGrid == CheckGridAdjustment \/ UpdateSymbol

SpecGrid == InitGrid /\ [][NextGrid]_vars

-----------------------------------------------------------------------------
(* The sleep at the end of a tick alone, for any volatility *)

MaxIntervalTime == 60    \* the clock's reach when the sleep is checked alone

InitInterval ==
    /\ Constructed
    /\ pc = "interval"
    /\ sig = [c \in Callers |-> "off"]
    /\ current_price = None
    /\ limit = DEFAULT_LIMIT
    /\ interval = DEFAULT_INTERVAL

\* _calculate_dynamic_interval for the volatility _calculate_volatility
\* returned: 60 s without one, else the hours of get_interval_by_volatility;
\* main_loop sleeps that long.
CalculateDynamicInterval ==
    /\ pc = "interval"
    /\ \E volatility \in GridVolatilities :
          LET units == IF volatility = NoVolatility THEN DEFAULT_SLEEP
                       ELSE get_interval_by_volatility(volatility)
          IN  /\ intervalFor' = [made |-> TRUE, volatility |-> volatility,
                                 interval |-> units]
              /\ sleep_for' = units
    /\ pc' = "interval_sleep"
    /\ UNCHANGED <<traderVars, limit, interval, now, side, sig, lastSignal>>
    /\ UNCHANGED <<throttleHist, dashVars, tickHist>>
    /\ UNCHANGED <<ledgerVars, riskBook, sizing, evaluated, gridVars,
                   s1Checked, s1OrderedAt, botVars, auxVars, order>>

\* asyncio.sleep(interval) is over.
IntervalSleep ==
    /\ pc = "interval_sleep"
    /\ now + sleep_for <= StartTime + MaxIntervalTime
    /\ now' = now + sleep_for
    /\ sleep_for' = 0
    /\ pc' = "interval"
    /\ UNCHANGED <<traderVars, limit, interval, side, sig, lastSignal>>
    /\ UNCHANGED <<throttleHist, dashVars, tickHist>>
    /\ UNCHANGED <<ledgerVars, riskBook, sizing, evaluated, gridVars, probes,
                   botVars, auxVars, order>>

NextInterval == CalculateDynamicInterval \/ IntervalSleep

SpecInterval == InitInterval /\ [][NextInterval]_vars

-----------------------------------------------------------------------------
(* The S1 decision alone, for any levels, price and position ratio *)

\* s1_daily_low and s1_daily_high: None, a 52-day range, an empty range.
S1Levels == {NoLevels, [low |-> 500, high |-> 700], [low |-> 600, high |-> 600]}
S1Prices == {480, 500, 540, 541, 600, 659, 660, 680, 700, 720}
S1Ratios == {0, 30, 50, 51, 65, 69, 70, 80, 100}

notS1 == <<pc, initialized, symbol, base_price, grid_size, current_price,
           buying_or_selling, INITIAL_GRID, emergency_stop_triggered,
           open_orders, order_timestamps, limit, interval, now, s1_levels,
           s1_last_data_update_ts, last_position_check,
           last_adjustment_time, side, sleep_for, dpc, sig, ordersThisTick,
           tickLatched, lastSignal, riskThisTick, inflight, rateAllowed,
           allowedAt, lastCall, ledgerVars, riskBook, order, sizing,
           evaluated, gridVars, intervalFor, s1OrderedAt, botVars, auxVars>>

\* The controller holds some levels and the trader some price.
InitS1 ==
    /\ initialized = TRUE
    /\ symbol = "BNB/USDT"
    /\ buying_or_selling = FALSE
    /\ emergency_stop_triggered = FALSE
    /\ open_orders = 1
    /\ order_timestamps = << >>
    /\ now = StartTime
    /\ s1_levels \in S1Levels
    /\ s1_last_data_update_ts = IF s1_levels = NoLevels THEN 0 ELSE StartTime
    /\ last_position_check = StartTime
    /\ last_adjustment_time = 0
    /\ side = Nil
    /\ sleep_for = 0
    /\ dpc = "idle"
    /\ ordersThisTick = [grid |-> 0, S1 |-> 0]
    /\ tickLatched = FALSE
    /\ lastSignal = NoSignal
    /\ riskThisTick = "ok"
    /\ inflight = 0
    /\ rateAllowed = FALSE
    /\ allowedAt = << >>
    /\ lastCall = NoCall
    /\ trade_history = << >>
    /\ history_file = NoFile
    /\ backup_file = NoFile
    /\ archives = << >>
    /\ max_asset_value = 0
    /\ daily_start_assets = NoAssets
    /\ daily_pnl_history = << >>
    /\ order = None
    /\ accepted = << >>
    /\ lastAdd = NoAdd
    /\ writeFailures = 0
    /\ lastDrawdown = NoDrawdown
    /\ lastDaily = NoDaily
    /\ sizing = NoSizing
    /\ evaluated = NoEvaluation
    /\ adjusted = NoAdjustment
    /\ s1Checked = NoS1Check
    /\ intervalFor = NoIntervalFor
    /\ s1OrderedAt = 0
    /\ failedStep = NoFailure
    /\ running = TRUE
    /\ web_task = "serving"
    /\ risk_alerts = [k \in RiskKinds |-> NoAlert]
    /\ alerted = NoAlerted
    /\ config = DefaultConfig
    /\ updated = NoUpdate
    /\ profits = << >>
    /\ statistics = NoStatistics
    /\ refreshes = << >>
    /\ adjustment = NoAdjust
    /\ signalled = NoSignalled
    /\ GRID_PARAMS = VolatilityRanges
    /\ base_price \in Prices
    /\ grid_size = DEFAULT_INITIAL_GRID
    /\ INITIAL_GRID = DEFAULT_INITIAL_GRID
    /\ pc = "s1"
    /\ sig = [c \in Callers |-> "off"]
    /\ current_price \in S1Prices
    /\ limit = DEFAULT_LIMIT
    /\ interval = DEFAULT_INTERVAL

\* _check_s1_strategy, with the ratio _get_current_position_ratio returns, up
\* to the call of _calculate_adjustment_amount.
CheckS1Strategy ==
    /\ pc = "s1"
    /\ \E ratio \in S1Ratios :
          LET decision == S1Decision(s1_levels, current_price, ratio) IN
          s1Checked' = [made |-> TRUE, levels |-> s1_levels,
                        price |-> current_price, ratio |-> ratio,
                        side |-> decision,
                        change |-> S1TargetChange(decision, ratio)]
    /\ UNCHANGED notS1

NextS1 == CheckS1Strategy

SpecS1 == InitS1 /\ [][NextS1]_vars

-----------------------------------------------------------------------------
(* The S1 overlay over a longer time: the re-check interval and the cooldown *)

MaxOverlayTime == 36    \* the clock's reach when the overlay is checked alone

\* The time from one call of check_and_execute to the next, in units of 60 s.
OverlayDelays == {3, 30}

InitOverlay ==
    /\ Constructed
    /\ pc = "overlay"
    /\ sig = [c \in Callers |-> "off"]
    /\ current_price \in Prices
    /\ limit = DEFAULT_LIMIT
    /\ interval = DEFAULT_INTERVAL

\* main_loop calls check_and_execute, which runs up to its first suspension.
OverlayEnter ==
    /\ pc = "overlay"
    /\ check_and_execute
    /\ UNCHANGED <<initialized, symbol, base_price, grid_size, current_price,
                   buying_or_selling, INITIAL_GRID, emergency_stop_triggered,
                   open_orders, now, s1_levels, s1_last_data_update_ts,
                   last_adjustment_time, side, sleep_for, sig, lastSignal>>
    /\ UNCHANGED <<throttleVars, throttleHist, dashVars, tickHist>>
    /\ UNCHANGED <<ledgerVars, riskBook, sizing, evaluated, gridVars, probes, botVars, auxVars,
                   order>>

\* S1SubmitOrder, recording the time of the order.
OverlaySubmitOrder ==
    /\ pc = "s1_balance"
    /\ \E enough \in BOOLEAN :
          IF enough
          THEN /\ ordersThisTick' = [ordersThisTick EXCEPT !.S1 = @ + 1]
               /\ inflight' = inflight + 1
               /\ s1OrderedAt' = now
               /\ pc' = "s1_order"
          ELSE /\ pc' = "assets"
               /\ UNCHANGED <<ordersThisTick, inflight, s1OrderedAt>>
    /\ UNCHANGED <<traderVars, limit, interval, now, side, sleep_for, sig,
                   riskThisTick, rateAllowed, tickLatched, lastSignal>>
    /\ UNCHANGED <<throttleHist, dashVars>>
    /\ UNCHANGED <<ledgerVars, riskBook, sizing, evaluated, gridVars,
                   s1Checked, intervalFor, botVars, auxVars, order>>

\* check_and_execute returned; the rest of the tick, the sleep and the next
\* tick up to its call of check_and_execute take some time.
OverlayWait ==
    /\ pc = "assets"
    /\ \E d \in OverlayDelays :
          /\ now + d <= StartTime + MaxOverlayTime
          /\ now' = now + d
    /\ ordersThisTick' = [grid |-> 0, S1 |-> 0]
    /\ pc' = "overlay"
    /\ UNCHANGED <<traderVars, limit, interval, side, sleep_for, sig,
                   tickLatched, riskThisTick, inflight, rateAllowed,
                   lastSignal>>
    /\ UNCHANGED <<throttleHist, dashVars>>
    /\ UNCHANGED <<ledgerVars, riskBook, sizing, evaluated, gridVars, probes, botVars, auxVars,
                   order>>

NextOverlay ==
    \/ OverlayEnter
    \/ S1UpdateLevels
    \/ S1CheckStrategy
    \/ S1Adjustment
    \/ OverlaySubmitOrder
    \/ S1OrderDone
    \/ S1Adjusted
    \/ OverlayWait

SpecOverlay == InitOverlay /\ [][NextOverlay]_vars

-----------------------------------------------------------------------------
(* GridTradingBot: main_loop and the web server task under _run_services,   *)
(* with stop and the signal handler; the handlers of the dashboard are left  *)
(* out.  The steps of a tick record the exceptions they catch.               *)

\* A step of the tick logged an error it caught.
Fail(step) == failedStep' = [n |-> 1 - failedStep.n, step |-> step]

\* The points main_loop may be at while its task is alive.
LoopPoints ==
    {"top", "ticker", "g_balance", "g_order", "g_notify", "ohlcv", "risk",
     "risk_pause", "s1_klines", "s1_ratio", "s1_amount", "s1_balance",
     "s1_order", "s1_notify", "assets", "sleep"}

\* A variant of the next definition in which _get_latest_price has no except
\* clause and main_loop none either: the exception ends the task.
TickPollPriceUncaught ==
    /\ pc = "ticker"
    /\ \E ticker \in Prices \cup {None} :
          IF ticker = None
          THEN /\ Fail("price poll")
               /\ pc' = "terminated"
               /\ UNCHANGED <<current_price, buying_or_selling, side, sig>>
          ELSE /\ UNCHANGED failedStep
               /\ current_price' = ticker
               /\ _check_trading_signals("loop", ticker)
    /\ UNCHANGED <<initialized, symbol, base_price, grid_size, INITIAL_GRID,
                   emergency_stop_triggered, open_orders, now, sleep_for,
                   lastSignal>>
    /\ UNCHANGED <<throttleVars, throttleHist, s1Vars, dashVars, tickHist>>
    /\ UNCHANGED <<ledgerVars, riskBook, sizing, evaluated, gridVars, probes,
                   running, web_task, auxVars, order>>

\* A variant of the next definition in which _get_latest_price falls back to
\* the price of the tick before instead of base_price.
TickPollPriceStale ==
    /\ pc = "ticker"
    /\ \E ticker \in Prices \cup {None} :
          LET price == IF ticker = None THEN current_price ELSE ticker IN
          /\ IF ticker = None THEN Fail("price poll") ELSE UNCHANGED failedStep
          /\ current_price' = price
          /\ _check_trading_signals("loop", price)
    /\ UNCHANGED <<initialized, symbol, base_price, grid_size, INITIAL_GRID,
                   emergency_stop_triggered, open_orders, now, sleep_for,
                   lastSignal>>
    /\ UNCHANGED <<throttleVars, throttleHist, s1Vars, dashVars, tickHist>>
    /\ UNCHANGED <<ledgerVars, riskBook, sizing, evaluated, gridVars, probes,
                   running, web_task, auxVars, order>>

\* PollPrice, recording the failure: fetch_ticker raised or returned no last
\* price, _get_latest_price logged it and returned base_price.
TickPollPrice ==
    /\ pc = "ticker"
    /\ \E ticker \in Prices \cup {None} :
          LET price == IF ticker = None THEN base_price ELSE ticker IN
          /\ IF ticker = None THEN Fail("price poll") ELSE UNCHANGED failedStep
          /\ current_price' = price
          /\ _check_trading_signals("loop", price)
    /\ UNCHANGED <<initialized, symbol, base_price, grid_size, INITIAL_GRID,
                   emergency_stop_triggered, open_orders, now, sleep_for,
                   lastSignal>>
    /\ UNCHANGED <<throttleVars, throttleHist, s1Vars, dashVars, tickHist>>
    /\ UNCHANGED <<ledgerVars, riskBook, sizing, evaluated, gridVars, probes,
                   running, web_task, auxVars, order>>

\* GridAdjustment, recording the failure: fetch_ohlcv raised in
\* _calculate_volatility, which logged it and returned None.
TickGridAdjustment ==
    /\ pc = "ohlcv"
    /\ \E volatility \in Volatilities, raised \in BOOLEAN :
          /\ raised => volatility = NoVolatility
          /\ _check_grid_adjustment(volatility)
          /\ IF raised THEN Fail("grid resize") ELSE UNCHANGED failedStep
    /\ IF emergency_stop_triggered
       THEN pc' = "top" /\ riskThisTick' = "latched"
       ELSE pc' = "risk" /\ UNCHANGED riskThisTick
    /\ UNCHANGED <<initialized, symbol, base_price, current_price,
                   buying_or_selling, INITIAL_GRID, emergency_stop_triggered,
                   open_orders, now, side, sleep_for, sig, ordersThisTick,
                   inflight, rateAllowed, tickLatched, lastSignal>>
    /\ UNCHANGED <<throttleVars, throttleHist, s1Vars, dashVars>>
    /\ UNCHANGED <<ledgerVars, riskBook, sizing, evaluated, adjusted,
                   GRID_PARAMS, probes, running, web_task, auxVars, order>>

\* GridTradingBot.stop while main_loop is suspended: the flag is cleared and
\* GridTrader.emergency_stop clears the busy flag and cancels the open orders.
stop ==
    /\ Suspended
    /\ pc \in LoopPoints
    /\ running
    /\ running' = FALSE
    /\ emergency_stop
    /\ UNCHANGED <<pc, initialized, symbol, base_price, grid_size,
                   current_price, INITIAL_GRID, emergency_stop_triggered, now,
                   side, sleep_for, sig, lastSignal>>
    /\ UNCHANGED <<throttleVars, throttleHist, s1Vars, dashVars, tickHist>>
    /\ UNCHANGED <<ledgerVars, riskBook, sizing, evaluated, gridVars, probes,
                   web_task, failedStep, auxVars, order>>

\* _start_web_server: the 1 s poll finds the flag cleared and the runner is
\* cleaned up.
WebServerPoll ==
    /\ Suspended
    /\ web_task = "serving"
    /\ ~running
    /\ web_task' = "stopped"
    /\ UNCHANGED <<pc, now, sleep_for, traderVars, throttleVars, throttleHist,
                   s1Vars, dashVars, tickHist, side, sig, lastSignal>>
    /\ UNCHANGED <<ledgerVars, riskBook, sizing, evaluated, gridVars, probes,
                   running, failedStep, auxVars, order>>

\* _signal_handler: the flag is cleared and os._exit ends the process, with
\* whatever the tasks were doing.
_signal_handler ==
    /\ pc \in LoopPoints
    /\ running
    /\ running' = FALSE
    /\ pc' = "exited"
    /\ web_task' = "exited"
    /\ UNCHANGED <<initialized, symbol, base_price, grid_size, current_price,
                   buying_or_selling, INITIAL_GRID, emergency_stop_triggered,
                   open_orders, now, side, sleep_for, sig, lastSignal>>
    /\ UNCHANGED <<throttleVars, throttleHist, s1Vars, dashVars, tickHist>>
    /\ UNCHANGED <<ledgerVars, riskBook, sizing, evaluated, gridVars, probes,
                   failedStep, auxVars, order>>

NextBot ==
    \/ LoopTop
    \/ TickPollPrice
    \/ _execute_order_amount("loop")
    \/ _execute_order_done("loop")
    \/ _adjust_grid_after_trade("loop")
    \/ TickGridAdjustment
    \/ CheckAllRisks
    \/ RiskPauseEnd
    \/ S1UpdateLevels
    \/ S1CheckStrategy
    \/ S1Adjustment
    \/ S1SubmitOrder
    \/ S1OrderDone
    \/ S1Adjusted
    \/ DynamicInterval
    \/ Sleep
    \/ stop
    \/ WebServerPoll
    \/ _signal_handler

SpecBot == Init /\ [][NextBot]_vars

-----------------------------------------------------------------------------
(* RiskManager.send_risk_alert alone, over a longer time *)

ALERT_COOLDOWN == 5      \* 300 s
MaxAlertTime == 7        \* the clock's reach when the alerts are checked alone

\* The time between two calls of send_risk_alert, in units of 60 s.
AlertDelays == {1, 4}

\* A variant of the next definition with one time for all kinds.
LastAlertOfAnyKind(risk_level) ==
    LET times == {risk_alerts[k] : k \in RiskKinds}
    IN  CHOOSE t \in times : \A u \in times : u <= t

\* self.risk_alerts[risk_level], NoAlert when the key is missing.
LastAlert(risk_level) == risk_alerts[risk_level]

InitAlerts ==
    /\ Constructed
    /\ pc = "alerts"
    /\ sig = [c \in Callers |-> "off"]
    /\ current_price = None
    /\ limit = DEFAULT_LIMIT
    /\ interval = DEFAULT_INTERVAL

\* send_risk_alert up to the notification: within 300 s of the kind's last
\* alert it returns; else the time is stored and the notification is sent.
send_risk_alert ==
    /\ pc = "alerts"
    /\ \E risk_level \in RiskKinds :
          LET suppressed == /\ LastAlert(risk_level) # NoAlert
                            /\ now - LastAlert(risk_level) < ALERT_COOLDOWN
          IN  /\ risk_alerts' = IF suppressed THEN risk_alerts
                                ELSE [risk_alerts EXCEPT ![risk_level] = now]
              /\ alerted' = [made |-> TRUE, kind |-> risk_level, at |-> now,
                             sent |-> ~suppressed, previous |-> risk_alerts,
                             lastSent |->
                                IF suppressed THEN alerted.lastSent
                                ELSE [alerted.lastSent EXCEPT ![risk_level] = now]]
    /\ UNCHANGED <<pc, traderVars, throttleVars, throttleHist, s1Vars,
                   dashVars, tickHist, now, side, sleep_for, sig, lastSignal>>
    /\ UNCHANGED <<ledgerVars, riskBook, sizing, evaluated, gridVars, probes,
                   botVars, configVars, statsVars, moreVars, order>>

\* The time to the next risk check that finds a violation.
AlertWait ==
    /\ pc = "alerts"
    /\ \E d \in AlertDelays :
          /\ now + d <= StartTime + MaxAlertTime
          /\ now' = now + d
    /\ UNCHANGED <<pc, traderVars, throttleVars, throttleHist, s1Vars,
                   dashVars, tickHist, side, sleep_for, sig, lastSignal>>
    /\ UNCHANGED <<ledgerVars, riskBook, sizing, evaluated, gridVars, probes,
                   botVars, auxVars, order>>

NextAlerts == send_risk_alert \/ AlertWait \/ reset_risk_state

SpecAlerts == InitAlerts /\ [][NextAlerts]_vars

-----------------------------------------------------------------------------
(* WebServer.handle_update_config alone, for requests of several fields *)

ConfigKeys == {"MIN_POSITION_RATIO", "MAX_POSITION_RATIO"}
NotANumber == -999      \* a value float() raises ValueError for, as "abc"
ConfigValues == {NotANumber, 5, 50, 95}

\* The JSON objects of a request: one or two fields, in the order of the body.
ConfigRequests ==
    {<<f>> : f \in [key : ConfigKeys, value : ConfigValues]} \cup
    {<<f, g>> : f, g \in [key : ConfigKeys, value : ConfigValues]}

\* The for loop of handle_update_config: each field is converted and set at
\* once; the first value that does not convert ends the loop (and the
\* handler, with status 400).
RECURSIVE SetFields(_, _)
SetFields(cfg, data) ==
    IF data = << >> THEN [config |-> cfg, failed |-> FALSE]
    ELSE IF Head(data).value = NotANumber THEN [config |-> cfg, failed |-> TRUE]
    ELSE SetFields([cfg EXCEPT ![Head(data).key] = Head(data).value],
                   Tail(data))

\* old_config after the loop: the value each field of the request had when
\* the loop came to it.
RECURSIVE OldConfig(_, _, _)
OldConfig(cfg, data, old_config) ==
    IF data = << >> THEN old_config
    ELSE OldConfig([cfg EXCEPT ![Head(data).key] = Head(data).value],
                   Tail(data),
                   [old_config EXCEPT ![Head(data).key] = cfg[Head(data).key]])

\* The restore loop: setattr of every entry of old_config.
RestoreFields(cfg, data, old_config) ==
    [k \in DOMAIN cfg |->
        IF \E i \in DOMAIN data : data[i].key = k THEN old_config[k]
        ELSE cfg[k]]

\* validate_trading_config, for the fields of the model.
validate_trading_config(cfg) == cfg.MIN_POSITION_RATIO < cfg.MAX_POSITION_RATIO

InitConfig ==
    /\ Constructed
    /\ pc = "config"
    /\ sig = [c \in Callers |-> "off"]
    /\ current_price = None
    /\ limit = DEFAULT_LIMIT
    /\ interval = DEFAULT_INTERVAL

\* handle_update_config for a request of one or two fields (JSON object keys
\* that differ; the same attribute may still be named twice, in upper and
\* in lower case).
UpdateConfigRequest ==
    /\ pc = "config"
    /\ \E data \in ConfigRequests :
          LET set == SetFields(config, data)
              old_config == OldConfig(config, data, config)
              status == IF set.failed THEN "invalid value"
                        ELSE IF ~validate_trading_config(set.config)
                             THEN "validation failed"
                        ELSE "success"
          IN  /\ config' = IF status = "validation failed"
                           THEN RestoreFields(set.config, data, old_config)
                           ELSE set.config
              /\ updated' = [n |-> 1 - updated.n, status |-> status,
                             before |-> config]
    /\ UNCHANGED <<pc, traderVars, throttleVars, throttleHist, s1Vars,
                   dashVars, tickHist, now, side, sleep_for, sig, lastSignal>>
    /\ UNCHANGED <<ledgerVars, riskBook, sizing, evaluated, gridVars, probes,
                   botVars, alertVars, statsVars, moreVars, order>>

NextConfig == UpdateConfigRequest

SpecConfig == InitConfig /\ [][NextConfig]_vars

-----------------------------------------------------------------------------
(* OrderTracker.get_statistics alone, for any history of profits *)

MaxProfits == 4          \* the longest history of the statistics
Profits == {-1, 0, 1}    \* a loss, a trade without profit, a win

Max(a, b) == IF a >= b THEN a ELSE b

\* The for loop of get_statistics from index i (1-based here) on, with the
\* values its three variables have there; what they are when it ends.
RECURSIVE Streaks(_, _, _, _, _)
Streaks(ps, i, current_streak, max_win_streak, max_loss_streak) ==
    IF i > Len(ps)
    THEN [consecutive_wins |-> max_win_streak,
          consecutive_losses |-> max_loss_streak]
    ELSE IF (ps[i] > 0 /\ ps[i - 1] > 0) \/ (ps[i] < 0 /\ ps[i - 1] < 0)
    THEN Streaks(ps, i + 1, current_streak + 1, max_win_streak,
                 max_loss_streak)
    ELSE IF ps[i - 1] > 0
    THEN Streaks(ps, i + 1, 1, Max(max_win_streak, current_streak),
                 max_loss_streak)
    ELSE Streaks(ps, i + 1, 1, max_win_streak,
                 Max(max_loss_streak, current_streak))

\* get_statistics: the two streaks (0 and 0 for an empty history).
get_statistics(ps) ==
    IF ps = << >> THEN [consecutive_wins |-> 0, consecutive_losses |-> 0]
    ELSE Streaks(ps, 2, 1, 0, 0)

InitStats ==
    /\ Constructed
    /\ pc = "stats"
    /\ sig = [c \in Callers |-> "off"]
    /\ current_price = None
    /\ limit = DEFAULT_LIMIT
    /\ interval = DEFAULT_INTERVAL

\* add_trade of a trade with the profit p.
AddProfit ==
    /\ pc = "stats"
    /\ Len(profits) < MaxProfits
    /\ \E p \in Profits : profits' = Append(profits, p)
    /\ UNCHANGED <<pc, traderVars, throttleVars, throttleHist, s1Vars,
                   dashVars, tickHist, now, side, sleep_for, sig, lastSignal>>
    /\ UNCHANGED <<ledgerVars, riskBook, sizing, evaluated, gridVars, probes,
                   botVars, alertVars, configVars, statistics, moreVars,
                   order>>

GetStatistics ==
    /\ pc = "stats"
    /\ statistics' = [made |-> TRUE,
                      consecutive_wins |->
                         get_statistics(profits).consecutive_wins,
                      consecutive_losses |->
                         get_statistics(profits).consecutive_losses]
    /\ UNCHANGED <<pc, traderVars, throttleVars, throttleHist, s1Vars,
                   dashVars, tickHist, now, side, sleep_for, sig, lastSignal>>
    /\ UNCHANGED <<ledgerVars, riskBook, sizing, evaluated, gridVars, probes,
                   botVars, alertVars, configVars, profits, moreVars,
                   order>>

NextStats == AddProfit \/ GetStatistics

SpecStats == InitStats /\ [][NextStats]_vars

-----------------------------------------------------------------------------
(* OrderTracker with a history file from an earlier run: loading, adding and *)
(* archiving                                                                 *)

MaxArchiveTrades == 1503   \* the most trades the ledger has seen, loaded or added

\* The number of records of trade_history.json when the tracker is made.
LoadedSizes == {0, 99, 100, 999, 1000, 1001, 1500, 1501}

InitArchive ==
    /\ Constructed
    /\ pc = "load"
    /\ sig = [c \in Callers |-> "off"]
    /\ current_price = None
    /\ limit = DEFAULT_LIMIT
    /\ interval = DEFAULT_INTERVAL

\* OrderTracker.__init__: load_trade_history reads the whole file, whatever
\* its length (the records carry the order ids 1 .. n).
load_trade_history ==
    /\ pc = "load"
    /\ \E n \in LoadedSizes :
          /\ trade_history' = [i \in 1 .. n |-> i]
          /\ accepted' = [i \in 1 .. n |-> i]
          /\ history_file' = IF n = 0 THEN history_file
                             ELSE [exists |-> TRUE, trades |-> trade_history']
    /\ pc' = "archive"
    /\ UNCHANGED <<initialized, symbol, base_price, grid_size, current_price,
                   buying_or_selling, INITIAL_GRID, emergency_stop_triggered,
                   open_orders, now, side, sleep_for, sig, lastSignal>>
    /\ UNCHANGED <<throttleVars, throttleHist, s1Vars, dashVars, tickHist>>
    /\ UNCHANGED <<backup_file, archives, lastAdd, writeFailures, riskBook,
                   sizing, evaluated, gridVars, probes, botVars, auxVars,
                   order>>

\* add_trade of a whole trade with a new order id.
ArchiveAddTrade ==
    /\ pc = "archive"
    /\ Len(accepted) < MaxArchiveTrades
    /\ add_trade([order_id |-> Len(accepted) + 1, missing |-> Nil,
                  bad |-> Nil])
    /\ UNCHANGED notLedger

ArchiveLoadedTrades ==
    /\ pc = "archive"
    /\ archive_old_trades
    /\ UNCHANGED notLedger

NextArchive == load_trade_history \/ ArchiveAddTrade \/ ArchiveLoadedTrades

SpecArchive == InitArchive /\ [][NextArchive]_vars

-----------------------------------------------------------------------------
(* The refresh of the S1 levels alone, over days *)

MaxLevelsTime == 2880    \* the clock's reach when the refresh is checked alone

\* The time from one call of check_and_execute to the next, in units of 60 s.
LevelsDelays == {1428, 1434, 1440}

\* The 52-day low and high of the candles, from one day to another.
DailyLevels == {NoLevels, [low |-> 90, high |-> 110], [low |-> 80, high |-> 120]}

\* GridTrader and PositionController as constructed, before the first price:
\* _check_s1_strategy returns at once.
InitLevels ==
    /\ Constructed
    /\ pc = "overlay"
    /\ sig = [c \in Callers |-> "off"]
    /\ current_price = None
    /\ limit = DEFAULT_LIMIT
    /\ interval = DEFAULT_INTERVAL

\* S1UpdateLevels, recording the time of the refresh.
LevelsUpdate ==
    /\ pc = "s1_klines"
    /\ \E levels \in DailyLevels :
          IF levels = NoLevels
          THEN /\ UNCHANGED <<s1_levels, s1_last_data_update_ts, refreshes>>
               /\ S1Gate(s1_levels)
          ELSE /\ s1_levels' = levels
               /\ s1_last_data_update_ts' = now
               /\ refreshes' = Append(refreshes, now)
               /\ S1Gate(levels)
    /\ UNCHANGED <<initialized, symbol, base_price, grid_size, current_price,
                   buying_or_selling, INITIAL_GRID, emergency_stop_triggered,
                   open_orders, now, last_adjustment_time, side, sleep_for, sig,
                   lastSignal>>
    /\ UNCHANGED <<throttleVars, throttleHist, dashVars, tickHist>>
    /\ UNCHANGED <<ledgerVars, riskBook, sizing, evaluated, gridVars, probes,
                   botVars, alertVars, configVars, statsVars, adjustment,
                   signalled, order>>

\* check_and_execute returned; the time to its next call.
LevelsWait ==
    /\ pc = "assets"
    /\ \E d \in LevelsDelays :
          /\ now + d <= StartTime + MaxLevelsTime
          /\ now' = now + d
    /\ pc' = "overlay"
    /\ UNCHANGED <<traderVars, limit, interval, side, sleep_for, sig,
                   lastSignal>>
    /\ UNCHANGED <<throttleHist, dashVars, tickHist>>
    /\ UNCHANGED <<ledgerVars, riskBook, sizing, evaluated, gridVars, probes,
                   botVars, auxVars, order>>

NextLevels == OverlayEnter \/ LevelsUpdate \/ LevelsWait

SpecLevels == InitLevels /\ [][NextLevels]_vars

-----------------------------------------------------------------------------
(* The amount of an S1 adjustment alone.  Quote amounts are in thousandths   *)
(* of a quote unit where they are compared, base amounts in thousandths of   *)
(* the base currency.                                                        *)

\* target_ratio_change in percent, and _get_total_assets in quote units.
AdjustChanges == {1, 5, 20}
AdjustAssets == {300, 1000}

\* The free balance fetch_balance reports: quote units for a buy,
\* thousandths of the base currency for a sell.
AdjustBalances == {0, 15, 21, 190, 230, 5000}

\* The step of the amount (limits.amount.min gives 3, 2 or 1 decimals) and
\* limits.cost.min of the instrument, 10 being the default.
AmountSteps == {1, 10, 100}
MinNotionals == {10, 50}

Min(a, b) == IF a <= b THEN a ELSE b

\* total_assets * target_ratio_change, in thousandths of a quote unit.
TargetValue(total_assets, change) == total_assets * change * 10

\* The free balance in thousandths of a quote unit: the quote balance of a
\* buy, the base balance of a sell valued at the price.
FreeValue(order_side, free, price) ==
    IF order_side = "buy" THEN free * 1000 ELSE free * price

\* min(usdt_balance, target_usdt_amount) of a buy, and
\* min(base_balance, target_base_amount) * current_price of a sell.
ClippedValue(order_side, free, total_assets, change, price) ==
    Min(FreeValue(order_side, free, price), TargetValue(total_assets, change))

\* The amount num / den rounded up to the step.
round_up_to_precision(num, den, step) ==
    (((num + den * step) - 1) \div (den * step)) * step

\* _adjust_amount_precision with symbol_info: math.floor of the amount
\* num / den at the instrument's precision.
_adjust_amount_precision(num, den, step) == ((num \div den) \div step) * step

\* _calculate_adjustment_amount: 0 when the clipped value is below
\* MIN_TRADE_AMOUNT, else the clipped value over the price, at the precision.
_calculate_adjustment_amount(order_side, free, total, change, price, step) ==
    LET clipped == ClippedValue(order_side, free, total, change, price)
    IN  IF clipped < MIN_TRADE_AMOUNT * 1000
        THEN 0
        ELSE _adjust_amount_precision(clipped, price, step)

\* _check_balance_for_adjustment with the balance fetched again: the trader
\* has no _pre_transfer_funds.
_check_balance_for_adjustment(order_side, amount, price, free_now) ==
    IF order_side = "buy"
    THEN ~(free_now * 1000 < amount * price)
    ELSE ~(free_now < amount)

InitAdjust ==
    /\ Components
    /\ current_price \in Prices
    /\ base_price = current_price
    /\ grid_size = DEFAULT_INITIAL_GRID
    /\ INITIAL_GRID = DEFAULT_INITIAL_GRID
    /\ pc = "adjust"
    /\ sig = [c \in Callers |-> "off"]
    /\ limit \in 1..MaxLimit
    /\ interval = DEFAULT_INTERVAL

\* _check_s1_strategy from _calculate_adjustment_amount on: with an amount
\* above 0, _execute_s1_adjustment follows.
CalculateAdjustment ==
    /\ pc = "adjust"
    /\ \E order_side \in {"buy", "sell"}, change \in AdjustChanges,
          total_assets \in AdjustAssets, free \in AdjustBalances,
          step \in AmountSteps :
          LET amount == _calculate_adjustment_amount(order_side, free,
                            total_assets, change, current_price, step)
          IN  /\ adjustment' =
                    [NoAdjust EXCEPT !.made = TRUE, !.side = order_side,
                        !.change = change, !.total_assets = total_assets,
                        !.free = free, !.price = current_price, !.step = step,
                        !.clipped = ClippedValue(order_side, free,
                                        total_assets, change, current_price),
                        !.amount = amount]
              /\ pc' = IF amount > 0 THEN "adjust_execute" ELSE "adjust"
    /\ UNCHANGED <<traderVars, limit, interval, now, side, sleep_for, sig,
                   lastSignal>>
    /\ UNCHANGED <<throttleHist, dashVars, tickHist>>
    /\ UNCHANGED <<ledgerVars, riskBook, sizing, evaluated, gridVars, probes,
                   botVars, alertVars, configVars, statsVars, refreshes,
                   signalled, order>>

\* _execute_s1_adjustment up to create_market_order: check_rate, the amount
\* at the precision again, the minimum notional, the balance fetched again.
ExecuteAdjustment ==
    /\ pc = "adjust_execute"
    /\ check_rate
    /\ \E min_notional \in MinNotionals, free_now \in AdjustBalances :
          LET adjusted_amount == _adjust_amount_precision(adjustment.amount, 1,
                                                         adjustment.step)
              submitted ==
                  /\ RateAllows(now)
                  /\ adjusted_amount > 0
                  /\ ~(adjusted_amount * current_price < min_notional * 1000)
                  /\ _check_balance_for_adjustment(adjustment.side,
                         adjusted_amount, current_price, free_now)
          IN  adjustment' = [adjustment EXCEPT !.executed = TRUE,
                                !.amount = adjusted_amount,
                                !.min_notional = min_notional,
                                !.free_now = free_now,
                                !.submitted = submitted]
    /\ pc' = "adjust"
    /\ UNCHANGED <<initialized, symbol, base_price, grid_size, current_price,
                   buying_or_selling, INITIAL_GRID, emergency_stop_triggered,
                   open_orders, s1Vars, now, side, sleep_for, sig, lastSignal>>
    /\ UNCHANGED <<dashVars, tickHist>>
    /\ UNCHANGED <<ledgerVars, riskBook, sizing, evaluated, gridVars, probes,
                   botVars, alertVars, configVars, statsVars, refreshes,
                   signalled, order>>

NextAdjust == CalculateAdjustment \/ ExecuteAdjustment

SpecAdjust == InitAdjust /\ [][NextAdjust]_vars

-----------------------------------------------------------------------------
(* main_loop with the dashboard's symbol switch, the signal's symbol kept *)

\* PollPrice, recording for a signal the symbol fetch_ticker was called with,
\* the price it gave and the base price of the bands.
SwitchPollPrice ==
    /\ pc = "ticker"
    /\ \E ticker \in Prices \cup {None} :
          LET price == IF ticker = None THEN base_price ELSE ticker IN
          /\ current_price' = price
          /\ _check_trading_signals("loop", price)
          /\ signalled' = IF SignalOutcome(price) \in {"buy", "sell"}
                          THEN [symbol |-> symbol, price |-> price,
                                base_price |-> base_price]
                          ELSE signalled
    /\ UNCHANGED <<initialized, symbol, base_price, grid_size, INITIAL_GRID,
                   emergency_stop_triggered, open_orders, now, sleep_for,
                   lastSignal>>
    /\ UNCHANGED <<throttleVars, throttleHist, s1Vars, dashVars, tickHist>>
    /\ UNCHANGED <<ledgerVars, riskBook, sizing, evaluated, gridVars, probes,
                   botVars, alertVars, configVars, statsVars, refreshes,
                   adjustment, order>>

NextSwitch ==
    \/ LoopTop
    \/ SwitchPollPrice
    \/ _execute_order_amount("loop")
    \/ _execute_order_done("loop")
    \/ _adjust_grid_after_trade("loop")
    \/ GridAdjustment
    \/ CheckAllRisks
    \/ RiskPauseEnd
    \/ S1UpdateLevels
    \/ S1CheckStrategy
    \/ S1Adjustment
    \/ S1SubmitOrder
    \/ S1OrderDone
    \/ S1Adjusted
    \/ DynamicInterval
    \/ Sleep
    \/ \E new_symbol \in Symbols : handle_switch_symbol(new_symbol)
    \/ SetupBasePrice
    \/ Initialized

SpecSwitch == Init /\ [][NextSwitch]_vars

-----------------------------------------------------------------------------
(* Properties *)

\* A step that submits an order, by the grid engine or by S1.
OrderSubmitted == OrdersSubmitted' > OrdersSubmitted

C2_ExtremeViolationLatches ==
    riskThisTick = "extreme" => (emergency_stop_triggered /\ open_orders = 0)

\* C3: in an iteration that began with the stop latched, no order is submitted
\* while the stop is latched.
C3_NoOrderOnceLatched ==
    [][(tickLatched /\ emergency_stop_triggered) => ~OrderSubmitted]_vars

\* C4: an order is submitted only after the iteration's risk checks have run
\* and found no violation.
C4_RiskChecksBeforeOrders ==
    [][OrderSubmitted => riskThisTick = "ok"]_vars

\* C5 as stated: at most one order per loop iteration, the grid engine and S1
\* counted together.
C5_OneOrderPerIteration == OrdersSubmitted <= 1

\* C5: at most one order of the grid engine and at most one order of S1 per
\* loop iteration.
C5_OneOrderPerPath == ordersThisTick.grid <= 1 /\ ordersThisTick.S1 <= 1

\* An iteration in which the grid engine and S1 have each submitted an order.
C5_Witness == ordersThisTick.grid = 1 /\ ordersThisTick.S1 = 1

\* C6: a call of _check_trading_signals with the busy flag set is dropped: it
\* submits no order, changes nothing of the trader and leaves nothing behind
\* for the caller to execute later.
C6_BusyCallDropped ==
    [][(lastSignal'.n # lastSignal.n /\ buying_or_selling)
          => /\ lastSignal'.outcome = "dropped"
             /\ UNCHANGED <<traderVars, side, sig, ordersThisTick, inflight>>]_vars

\* A call was dropped while another caller's order was in flight and the
\* price showed a signal.
C6_Witness ==
    /\ lastSignal.outcome = "dropped"
    /\ buying_or_selling
    /\ \E c \in Callers : sig[c] = "g_order" /\ lastSignal.who # c
    /\ _check_buy_signal(current_price) \/ _check_sell_signal(current_price)

\* C7: under every interleaving of main_loop and the dashboard, at most one
\* order submission is in flight.
C7_OneSubmissionInFlight == inflight <= 1

\* An order is in flight while a handler of the dashboard is under way.
C7_Witness == inflight = 1 /\ dpc = "base_price"

\* C8: the symbol and the configuration change only between two loop
\* iterations, never while an iteration is under way.
C8_ChangesAtIterationBoundary ==
    [][(symbol' # symbol \/ INITIAL_GRID' # INITIAL_GRID) => pc = "sleep"]_vars

\* C9: in every window of interval seconds at most limit calls of check_rate
\* were allowed; a call is denied exactly when limit allowed calls lie in its
\* window, so it is allowed again once the oldest has aged out; a denied call
\* records nothing, an allowed call one timestamp.
C9_RateLimit ==
    /\ \A t \in StartTime..now : AllowedInWindow(allowedAt, t) <= limit
    /\ lastCall.made =>
          /\ lastCall.allowed = (lastCall.inWindow < limit)
          /\ lastCall.recorded = IF lastCall.allowed THEN 1 ELSE 0

\* A call is denied at capacity after earlier allowed calls have aged out.
C9_Witness ==
    /\ lastCall.made /\ ~lastCall.allowed
    /\ lastCall.inWindow = limit
    /\ Len(allowedAt) > limit

\* C10: an order is submitted only after check_rate has allowed it in the
\* same decision.
C10_RateCheckedBeforeOrder ==
    [][OrderSubmitted => rateAllowed]_vars

\* No order_id occurs twice in the sequence.
NoDuplicateIds(trades) ==
    \A i, j \in DOMAIN trades : trades[i] = trades[j] => i = j

\* The ledger as add_trade may change it.
ledger == <<trade_history, history_file, backup_file, archives>>

\* C11: the history in memory and the history file hold at most one entry per
\* order_id, and add_trade with an order_id the history holds changes nothing
\* of the ledger.
C11_AddTradeIdempotent ==
    /\ [](NoDuplicateIds(trade_history) /\ NoDuplicateIds(history_file.trades))
    /\ [][(lastAdd' # lastAdd /\ lastAdd'.trade.order_id \in Ids(trade_history))
             => UNCHANGED ledger]_vars

\* A trade came with an order_id of the history and was dropped as a duplicate.
C11_Witness ==
    /\ lastAdd.outcome = "duplicate"
    /\ lastAdd.trade.order_id \in Ids(trade_history)
    /\ Len(trade_history) > 1

\* C12 as stated: add_trade with a record that lacks any field of a trade
\* record, or holds a non-numeric value in any numeric field, changes neither
\* the history in memory nor the files.
C12_MalformedRejected ==
    [][(/\ lastAdd' # lastAdd
        /\ \/ lastAdd'.trade.missing \in TradeRecordFields
           \/ lastAdd'.trade.bad \in NumericFields)
          => UNCHANGED ledger]_vars

\* C12: add_trade with a record that lacks one of timestamp, side, price,
\* amount, order_id, or holds a non-numeric timestamp, price or amount,
\* changes neither the history in memory nor the files.
C12_RequiredFieldsChecked ==
    [][(/\ lastAdd' # lastAdd
        /\ \/ lastAdd'.trade.missing
                 \in {"timestamp", "side", "price", "amount", "order_id"}
           \/ lastAdd'.trade.bad \in {"timestamp", "price", "amount"})
          => UNCHANGED ledger]_vars

\* A trade with a non-numeric price was rejected, with trades in the history.
C12_Witness ==
    /\ lastAdd.outcome = "malformed"
    /\ lastAdd.trade.bad = "price"
    /\ Len(trade_history) > 1

\* The last n entries of a sequence.
LastOf(trades, n) == SubSeq(trades, Len(trades) - n + 1, Len(trades))

\* C13: the history in memory holds at most 100 entries, and they are the
\* most recently accepted trades, in the order they were accepted.
C13_HistoryIsRecentWindow ==
    /\ Len(trade_history) <= 100
    /\ trade_history =
          LastOf(accepted, IF Len(accepted) < 100 THEN Len(accepted) ELSE 100)

\* More than 100 trades were accepted, the last call among them.
C13_Witness ==
    /\ Len(accepted) > 100
    /\ lastAdd.outcome = "accepted"
    /\ Len(trade_history) = 100

\* C14: every trade add_trade accepted is in the history file or in an
\* archive file.
C14_LedgerAppendOnly ==
    \A i \in DOMAIN accepted :
       \/ accepted[i] \in Ids(history_file.trades)
       \/ \E a \in DOMAIN archives : accepted[i] \in Ids(archives[a])

C16_ReanchorOnDateChangeOnly ==
    lastDaily.outcome = "new_day" => lastDaily.date > lastDaily.anchored

C18_SignalThresholds ==
    evaluated.made =>
       /\ evaluated.buy <=>
             evaluated.price * 1000 * 5000
                <= base_price * (1000 - grid_size) * (5000 - INITIAL_GRID)
       /\ evaluated.sell <=>
             evaluated.price * 1000 * 5000
                >= base_price * (1000 + grid_size) * (5000 + INITIAL_GRID)
       /\ (evaluated.outcome = "none") <=> (~evaluated.buy /\ ~evaluated.sell)
       /\ (base_price = 60 /\ grid_size = 20 /\ INITIAL_GRID = 20) =>
             /\ evaluated.buy <=> evaluated.price <= 58
             /\ evaluated.sell <=> evaluated.price >= 62

\* A price just inside the buy threshold gave no signal.
C18_Witness ==
    /\ evaluated.made
    /\ base_price = 92 /\ grid_size = 20 /\ INITIAL_GRID = 20
    /\ evaluated.price = 90
    /\ evaluated.outcome = "none"

\* C19: after a filled grid-engine order base_price equals the price the
\* exchange reported for the fill.
C19_ReanchorToFillPrice ==
    [][(order # None /\ order' = None) => base_price' = order]_vars

\* C20: a submitted order's amount never exceeds the free balance times the
\* max-percentage cap (converted at the price for a buy), and for buys and
\* sells no order is submitted with a notional (amount x price) below the
\* minimum trade amount.
C20_AmountCappedAndAboveMinimum ==
    (sizing.side # Nil /\ sizing.amount > 0) =>
       /\ sizing.side = "buy" =>
             sizing.amount * sizing.price * 100
                <= sizing.free * MAX_POSITION_PERCENT * 1000
       /\ sizing.side = "sell" =>
             sizing.amount * 100 <= sizing.free * MAX_POSITION_PERCENT
       /\ sizing.amount * sizing.price >= MIN_TRADE_AMOUNT * 1000

\* The first range of the table that holds the volatility, the last range
\* holding every volatility from its lower limit on.
FirstRange(volatility) ==
    CHOOSE i \in DOMAIN GRID_PARAMS :
       /\ GRID_PARAMS[i].min <= volatility
       /\ volatility < GRID_PARAMS[i].max \/ i = Len(GRID_PARAMS)
       /\ \A j \in 1 .. i - 1 :
             ~(GRID_PARAMS[j].min <= volatility
                  /\ volatility < GRID_PARAMS[j].max)

\* C21: a grid-resize step changes grid_size only if the grid size the table
\* suggests differs from it by more than 0.5 points, and then grid_size
\* becomes the suggested value; the suggested value is that of the first range
\* [min, max) containing the volatility, the final range being a catch-all.
C21_ResizeBeyondHysteresis ==
    [][/\ adjusted' # adjusted /\ adjusted'.volatility # NoVolatility =>
            /\ adjusted'.before = grid_size
            /\ adjusted'.suggested
                  = GRID_PARAMS[FirstRange(adjusted'.volatility)].grid
            /\ grid_size' = IF Abs(adjusted'.suggested - grid_size) > 5
                            THEN adjusted'.suggested ELSE grid_size
       /\ grid_size' # grid_size =>
            /\ adjusted' # adjusted
            /\ adjusted'.volatility # NoVolatility]_vars

\* A suggestion 0.5 points from the grid size was not applied, under the
\* table of ETH/USDT.
C21_Witness ==
    /\ adjusted.made
    /\ symbol = "ETH/USDT"
    /\ adjusted.before = 25 /\ adjusted.suggested = 20
    /\ grid_size = 25

\* C22: in every reachable state MIN_GRID_SIZE <= grid_size <= MAX_GRID_SIZE,
\* also after a resize and under a symbol's own table.
C22_GridSizeWithinLimits ==
    MIN_GRID_SIZE <= grid_size /\ grid_size <= MAX_GRID_SIZE

\* The suspension points of check_and_execute and of what it calls; "risk"
\* is where check_all_risks ends and check_and_execute starts.
S1Points == {"risk", "s1_klines", "s1_ratio", "s1_amount", "s1_balance",
             "s1_order", "s1_notify"}

\* C23: no step of the S1 overlay (check_and_execute and everything it calls,
\* an executed adjustment included) changes base_price.
C23_OverlayKeepsBasePrice ==
    [][(pc \in S1Points /\ pc' # pc) => base_price' = base_price]_vars

\* An S1 adjustment was executed while the price was away from base_price.
C23_Witness ==
    /\ pc = "assets"
    /\ last_adjustment_time = now
    /\ ordersThisTick.S1 = 1
    /\ current_price # base_price

\* C24: the S1 overlay sells only when price_position >= 0.8 and the exposure
\* ratio exceeds the sell target, sizing from the excess; it buys only when
\* price_position <= 0.2 and the ratio is below the buy target, sizing from
\* the deficit; in every other case it submits nothing.  (High 700, low 500,
\* price 680, ratio 0.65: a sell of 0.15.)
C24_S1SellsHighBuysLow ==
    s1Checked.made =>
       LET low == s1Checked.levels.low
           high == s1Checked.levels.high
           sell == /\ high > low
                   /\ 10 * (s1Checked.price - low) >= 8 * (high - low)
                   /\ s1Checked.ratio > 50
           buy == /\ high > low
                  /\ 10 * (s1Checked.price - low) <= 2 * (high - low)
                  /\ s1Checked.ratio < 70
       IN  /\ s1Checked.side = "sell" =>
                sell /\ s1Checked.change = s1Checked.ratio - 50
           /\ s1Checked.side = "buy" =>
                buy /\ s1Checked.change = 70 - s1Checked.ratio
           /\ ~sell /\ ~buy => s1Checked.side = "none" /\ s1Checked.change = 0
           /\ (high = 700 /\ low = 500 /\ s1Checked.price = 680
                  /\ s1Checked.ratio = 65) =>
                s1Checked.side = "sell" /\ s1Checked.change = 15

\* The price is at 0.9 of the range with a ratio of 0.65: a sell of 0.15.
C24_Witness ==
    /\ s1Checked.made
    /\ s1Checked.levels = [low |-> 500, high |-> 700]
    /\ s1Checked.price = 680 /\ s1Checked.ratio = 65
    /\ s1Checked.side = "sell"

\* C25: with the price outside the stored low..high range (price_position
\* below 0 or above 1) the S1 overlay submits no order.
C25_OutOfRangeIsAdvisory ==
    (/\ s1Checked.made
     /\ s1Checked.levels.high > s1Checked.levels.low
     /\ \/ s1Checked.price < s1Checked.levels.low
        \/ s1Checked.price > s1Checked.levels.high)
    => s1Checked.side = "none"

\* C26: the S1 overlay evaluates its strategy conditions at most once per
\* re-check interval (300 s), and after an S1 order it places no further S1
\* order until the cooldown (1800 s) has elapsed.
C26_RecheckIntervalAndCooldown ==
    [][/\ (pc' = "s1_ratio" /\ pc # "s1_ratio") =>
             now - last_position_check >= 5
       /\ (s1OrderedAt' # s1OrderedAt /\ s1OrderedAt # 0) =>
             now - s1OrderedAt >= 30]_vars

C28_NoTickAfterStop ==
    [][~running => ~(pc = "top" /\ pc' = "ticker")]_vars

\* C29: the interval chosen for a volatility is not longer than the interval
\* chosen for any lower volatility, and without a volatility it is the fixed
\* default.
C29_IntervalNonIncreasing ==
    intervalFor.made =>
       /\ intervalFor.volatility = NoVolatility =>
             intervalFor.interval = DEFAULT_SLEEP
       /\ intervalFor.volatility # NoVolatility =>
             \A v1 \in GridVolatilities \ {NoVolatility} :
                v1 <= intervalFor.volatility =>
                   get_interval_by_volatility(v1) >= intervalFor.interval

C32_RejectedUpdateChangesNothing ==
    [][(updated' # updated /\ updated'.status # "success") =>
          config' = config]_vars

\* The length of the longest run of consecutive trades of ps whose profit
\* has the sign (1: positive, -1: negative).
LongestRun(ps, sign) ==
    LET runs == {r \in 0 .. Len(ps) :
                    \E i \in 1 .. (Len(ps) - r + 1) :
                       \A j \in i .. (i + r - 1) : ps[j] * sign > 0}
    IN  CHOOSE r \in runs : \A q \in runs : q <= r

\* C33: get_statistics reports as consecutive_wins and consecutive_losses the
\* lengths of the longest runs of trades with positive and with negative
\* profit in the history.
C33_LongestStreaks ==
    [][statistics' # statistics =>
          /\ statistics'.consecutive_wins = LongestRun(profits, 1)
          /\ statistics'.consecutive_losses = LongestRun(profits, -1)]_vars

\* C34: a step that changes a live ledger of more than 1000 records moves its
\* oldest 500 into a new archive and leaves exactly the others live, in their
\* order; archiving changes nothing of a ledger of 1000 records or fewer.
C34_ArchiveMovesOldest ==
    [][/\ (Len(trade_history) > ARCHIVE_THRESHOLD
             /\ trade_history' # trade_history) =>
             /\ archives' = Append(archives,
                                   SubSeq(trade_history, 1, ARCHIVE_BATCH))
             /\ trade_history' = SubSeq(trade_history, ARCHIVE_BATCH + 1,
                                        Len(trade_history))
       /\ (Len(trade_history) <= ARCHIVE_THRESHOLD /\ archives' # archives)
             => FALSE]_vars

C36_AdjustmentWithinTargetAndBalance ==
    adjustment.submitted =>
        /\ adjustment.amount * adjustment.price
              <= TargetValue(adjustment.total_assets, adjustment.change)
        /\ adjustment.amount * adjustment.price
              <= FreeValue(adjustment.side, adjustment.free, adjustment.price)
        /\ adjustment.amount * adjustment.price
              <= FreeValue(adjustment.side, adjustment.free_now,
                           adjustment.price)
        /\ adjustment.clipped >= MIN_TRADE_AMOUNT * 1000
        /\ adjustment.clipped >= adjustment.min_notional * 1000

\* An adjustment clipped to the free balance and rounded down was submitted.
C36_Witness ==
    /\ adjustment.submitted
    /\ FreeValue(adjustment.side, adjustment.free, adjustment.price)
          < TargetValue(adjustment.total_assets, adjustment.change)
    /\ adjustment.amount * adjustment.price < adjustment.clipped

\* C37: a price poll in which fetch_ticker fails (current_price becomes
\* base_price) raises no signal: main_loop goes on to the grid adjustment with
\* base_price, the busy flag and the orders of the tick as they were; and the
\* loop's grid order is submitted only after a poll that raised a signal.
C37_FailedPollPlacesNoOrder ==
    /\ [][(pc = "ticker" /\ failedStep' # failedStep) =>
            /\ pc' = "ohlcv"
            /\ current_price' = base_price
            /\ base_price' = base_price
            /\ buying_or_selling' = buying_or_selling
            /\ ordersThisTick' = ordersThisTick
            /\ inflight' = inflight]_vars
    /\ [][ordersThisTick'.grid > ordersThisTick.grid => pc = "g_balance"]_vars
    /\ [][(pc' = "g_balance" /\ pc # "g_balance") =>
            (pc = "ticker" /\ failedStep' = failedStep)]_vars

\* The poll failed in a tick and the loop went on without an order.
C37_Witness ==
    /\ failedStep.step = "price poll"
    /\ failedStep.n = 1
    /\ pc = "ohlcv"
    /\ current_price = base_price
    /\ ordersThisTick.grid = 0
    /\ ~buying_or_selling

\* C38: the busy flag is false whenever main_loop is at the start of an
\* iteration, whatever path the tick before took.
C38_FlagClearAtTickStart == pc = "top" => ~buying_or_selling

\* A tick that paused for a risk event, or gave an order up for its amount, is
\* over and the loop is at the start of the next one.
C38_Witness ==
    /\ pc = "top"
    /\ ~buying_or_selling
    /\ riskThisTick = "veto"

\* C39: the grid engine calls create_market_order with the symbol whose
\* ticker price and base price raised the signal of the tick.
C39_OrderForSignalledSymbol ==
    [][(pc = "g_balance" /\ pc' = "g_order") =>
          symbol = signalled.symbol]_vars

\* C40: main_loop comes back to the top of the loop, and so to its next price
\* poll, only out of a sleep: the dynamic interval or a backoff, or the pause
\* of a risk event.
C40_SleepBetweenPolls ==
    [][(pc' = "top" /\ pc # "top") => pc \in {"sleep", "risk_pause"}]_vars

====
